---- MODULE Spec2Model ----
(***************************************************************************)
(* Persistence layer of the KIS fitness tracker: the IndexedDB engine, the  *)
(* localStorage engine, the exercise / food / settings repositories, the    *)
(* export service and the storage factory.                                  *)
(*                                                                          *)
(* Time is counted in ticks; a calendar day has DayLen ticks.  A Date is a  *)
(* tick count (NaT is the Invalid Date), an ISO-8601 text is the pair       *)
(* <<day, tick in day>> compared lexically as the engines compare strings.  *)
(***************************************************************************)
EXTENDS Integers, Sequences, FiniteSets, TLC

VARIABLES
    env,        \* the runtime: "indexeddb" (window with IndexedDB), "localstorage" (window only), "none"
    now,        \* the wall clock read by new Date()
    idb,        \* content of the IndexedDB database: store name -> (id -> stored record)
    ls,         \* content of localStorage: store name -> item kept under "fitness-tracker:<store>"
    last,       \* the call completed last: operation, arguments, outcome, engine calls it made
    container,  \* storageFactory.repositoryContainer
    built,      \* number of repository instances constructed so far, per class
    task,       \* the settings / export call chain in flight
    snap        \* what the export / import round trip in flight holds

vars == <<env, now, idb, ls, last, container, built, task, snap>>

(***************************************************************************)
(* Bounds of the model                                                     *)
(***************************************************************************)
MaxNow == 1        \* the clock stops advancing at this tick
MaxDepth == 2      \* nested settings calls counted exactly up to this depth

Times == 0..MaxNow                \* values of new Date()
TicksOfDay == {0, 1}              \* the instants of one calendar day
DayLen == Cardinality(TicksOfDay)
Dates == {0, 1, 2}                \* dates a caller enters: day 0 start and end, day 1 start
Ids == {"a", "b"}
MaxRecords == Cardinality(Ids)    \* records kept in the exercise and food stores together
Names == {"Bench Press", "Squat"}
FoodNames == {"Oats"}
MealTypes == {"breakfast", "lunch"}
StoreNames == {"exercises", "foods", "settings"}

(***************************************************************************)
(* Values                                                                  *)
(***************************************************************************)
Null == [null |-> TRUE]
NaT == -1
EmptyMap == [i \in {} |-> Null]
NoItem == [kind |-> "none", data |-> EmptyMap]

Put(f, k, v) == [i \in (DOMAIN f) \cup {k} |-> IF i = k THEN v ELSE f[i]]
Remove(f, k) == [i \in (DOMAIN f) \ {k} |-> f[i]]
Values(f) == {f[i] : i \in DOMAIN f}
\* object spread { ...a, ...b }
Spread(a, b) == [k \in (DOMAIN a) \cup (DOMAIN b) |-> IF k \in DOMAIN b THEN b[k] ELSE a[k]]

Res(db, err, val) == [db |-> db, err |-> err, val |-> val]

\* Date.prototype.toISOString and new Date(text)
toISOString(t) == <<t \div DayLen, t % DayLen>>
IsIso(s) == Len(s) = 2
NewDate(s) == IF IsIso(s) THEN s[1] * DayLen + s[2] ELSE NaT
\* string comparison a <= b on ISO texts
StrLeq(a, b) == \/ a[1] < b[1]
                \/ a[1] = b[1] /\ a[2] <= b[2]

\* date-fns startOfDay / endOfDay
startOfDay(t) == (t \div DayLen) * DayLen
endOfDay(t) == (t \div DayLen) * DayLen + (DayLen - 1)

DateFields(r) == (DOMAIN r) \cap {"date", "createdAt", "updatedAt"}

(***************************************************************************)
(* IndexedDB engine (indexedDB.ts).  Every operator returns the database    *)
(* after the call, the error the promise rejects with ("" when it resolves) *)
(* and the value it resolves with.                                          *)
(***************************************************************************)
isIndexedDBAvailable(e) == e = "indexeddb"

\* the error openDatabase rejects with, "" when the connection opens
idb_openDatabase(e) ==
    CASE e = "none" -> "IndexedDB is not available in this environment"
      [] e = "localstorage" -> "ReferenceError: indexedDB is not defined"
      [] OTHER -> ""

idb_getById(e, db, store, id) ==
    IF idb_openDatabase(e) /= "" THEN Res(db, idb_openDatabase(e), Null)
    ELSE Res(db, "", IF id \in DOMAIN db[store] THEN db[store][id] ELSE Null)

idb_getAll(e, db, store) ==
    IF idb_openDatabase(e) /= "" THEN Res(db, idb_openDatabase(e), {})
    ELSE Res(db, "", Values(db[store]))

\* add written with put: an existing key is overwritten instead of rejected
idb_add_overwrites(e, db, store, item) ==
    IF idb_openDatabase(e) /= "" THEN Res(db, idb_openDatabase(e), Null)
    ELSE Res([db EXCEPT ![store] = Put(db[store], item.id, item)], "", item)

idb_add(e, db, store, item) ==
    IF idb_openDatabase(e) /= "" THEN Res(db, idb_openDatabase(e), Null)
    ELSE IF item.id \in DOMAIN db[store]
         THEN Res(db, "Failed to add item", Null)
         ELSE Res([db EXCEPT ![store] = Put(db[store], item.id, item)], "", item)

\* update that writes the store anew with the one item
idb_update_alone(e, db, store, item) ==
    IF idb_openDatabase(e) /= "" THEN Res(db, idb_openDatabase(e), Null)
    ELSE Res([db EXCEPT ![store] = Put(EmptyMap, item.id, item)], "", item)

idb_update(e, db, store, item) ==
    IF idb_openDatabase(e) /= "" THEN Res(db, idb_openDatabase(e), Null)
    ELSE Res([db EXCEPT ![store] = Put(db[store], item.id, item)], "", item)

\* deleteById that rejects when no record has the key
idb_deleteById_strict(e, db, store, id) ==
    IF idb_openDatabase(e) /= "" THEN Res(db, idb_openDatabase(e), Null)
    ELSE IF id \notin DOMAIN db[store] THEN Res(db, "Failed to delete item", Null)
    ELSE Res([db EXCEPT ![store] = Remove(db[store], id)], "", Null)

idb_deleteById(e, db, store, id) ==
    IF idb_openDatabase(e) /= "" THEN Res(db, idb_openDatabase(e), Null)
    ELSE Res([db EXCEPT ![store] = Remove(db[store], id)], "", Null)

idb_getByIndex(e, db, store, indexName, value) ==
    IF idb_openDatabase(e) /= "" THEN Res(db, idb_openDatabase(e), {})
    ELSE Res(db, "", {r \in Values(db[store]) :
                          indexName \in DOMAIN r /\ r[indexName] = value})

\* IDBKeyRange.bound throws DataError when the lower bound is above the upper
idb_getByIndexRange(e, db, store, indexName, lowerBound, upperBound) ==
    IF idb_openDatabase(e) /= "" THEN Res(db, idb_openDatabase(e), {})
    ELSE IF ~StrLeq(lowerBound, upperBound) THEN Res(db, "DataError", {})
    ELSE Res(db, "", {r \in Values(db[store]) :
                          /\ indexName \in DOMAIN r
                          /\ StrLeq(lowerBound, r[indexName])
                          /\ StrLeq(r[indexName], upperBound)})

\* clearStore that leaves the settings store as it is
idb_clearStore_entitiesOnly(e, db, store) ==
    IF idb_openDatabase(e) /= "" THEN Res(db, idb_openDatabase(e), Null)
    ELSE Res(IF store = "settings" THEN db ELSE [db EXCEPT ![store] = EmptyMap], "", Null)

idb_clearStore(e, db, store) ==
    IF idb_openDatabase(e) /= "" THEN Res(db, idb_openDatabase(e), Null)
    ELSE Res([db EXCEPT ![store] = EmptyMap], "", Null)

(***************************************************************************)
(* localStorage engine (localStorage.ts)                                    *)
(***************************************************************************)
JSON_stringify(data) == [kind |-> "json", data |-> data]
JSON_parse(text) == text.data

ls_getStoreData(e, l, store) ==
    IF e = "none" THEN EmptyMap
    ELSE IF l[store].kind = "none" THEN EmptyMap
    ELSE IF l[store].kind = "json" THEN JSON_parse(l[store])
    ELSE EmptyMap

ls_setStoreData(e, l, store, data) ==
    IF e = "none" THEN l ELSE [l EXCEPT ![store] = JSON_stringify(data)]

ls_openDatabase(e) == ""

ls_getById(e, l, store, id) ==
    LET data == ls_getStoreData(e, l, store)
    IN  Res(l, "", IF id \in DOMAIN data THEN data[id] ELSE Null)

ls_getAll(e, l, store) == Res(l, "", Values(ls_getStoreData(e, l, store)))

\* add that stores the item without looking for the id first
ls_add_blind(e, l, store, item) ==
    LET data == ls_getStoreData(e, l, store)
    IN  Res(ls_setStoreData(e, l, store, Put(data, item.id, item)), "", item)

ls_add(e, l, store, item) ==
    LET data == ls_getStoreData(e, l, store)
    IN  IF item.id \in DOMAIN data
        THEN Res(l, "Item already exists", Null)
        ELSE Res(ls_setStoreData(e, l, store, Put(data, item.id, item)), "", item)

ls_update(e, l, store, item) ==
    LET data == ls_getStoreData(e, l, store)
    IN  Res(ls_setStoreData(e, l, store, Put(data, item.id, item)), "", item)

ls_deleteById(e, l, store, id) ==
    LET data == ls_getStoreData(e, l, store)
    IN  Res(ls_setStoreData(e, l, store, Remove(data, id)), "", Null)

ls_getByIndex(e, l, store, indexName, value) ==
    Res(l, "", {r \in ls_getAll(e, l, store).val :
                    indexName \in DOMAIN r /\ r[indexName] = value})

ls_getByIndexRange(e, l, store, indexName, lowerBound, upperBound) ==
    Res(l, "", {r \in ls_getAll(e, l, store).val :
                    /\ indexName \in DOMAIN r
                    /\ StrLeq(lowerBound, r[indexName])
                    /\ StrLeq(r[indexName], upperBound)})

ls_clearStore(e, l, store) ==
    Res(IF e = "none" THEN l ELSE [l EXCEPT ![store] = NoItem], "", Null)

(***************************************************************************)
(* An engine call as a value, so that the calls a repository makes on the   *)
(* IndexedDB engine can be run on the localStorage engine as well.          *)
(***************************************************************************)
idb_apply(e, db, c) ==
    CASE c.op = "getById" -> idb_getById(e, db, c.store, c.id)
      [] c.op = "getAll" -> idb_getAll(e, db, c.store)
      [] c.op = "add" -> idb_add(e, db, c.store, c.item)
      [] c.op = "update" -> idb_update(e, db, c.store, c.item)
      [] c.op = "deleteById" -> idb_deleteById(e, db, c.store, c.id)
      [] c.op = "getByIndex" -> idb_getByIndex(e, db, c.store, c.index, c.value)
      [] c.op = "getByIndexRange" ->
             idb_getByIndexRange(e, db, c.store, c.index, c.lower, c.upper)
      [] c.op = "clearStore" -> idb_clearStore(e, db, c.store)

ls_apply(e, l, c) ==
    CASE c.op = "getById" -> ls_getById(e, l, c.store, c.id)
      [] c.op = "getAll" -> ls_getAll(e, l, c.store)
      [] c.op = "add" -> ls_add(e, l, c.store, c.item)
      [] c.op = "update" -> ls_update(e, l, c.store, c.item)
      [] c.op = "deleteById" -> ls_deleteById(e, l, c.store, c.id)
      [] c.op = "getByIndex" -> ls_getByIndex(e, l, c.store, c.index, c.value)
      [] c.op = "getByIndexRange" ->
             ls_getByIndexRange(e, l, c.store, c.index, c.lower, c.upper)
      [] c.op = "clearStore" -> ls_clearStore(e, l, c.store)

RECURSIVE idb_run(_, _, _)
idb_run(e, db, calls) ==
    IF calls = <<>> THEN [db |-> db, out |-> <<>>]
    ELSE LET r == idb_apply(e, db, Head(calls))
             rest == idb_run(e, r.db, Tail(calls))
         IN  [db |-> rest.db, out |-> <<[err |-> r.err, val |-> r.val]>> \o rest.out]

RECURSIVE ls_run(_, _, _)
ls_run(e, l, calls) ==
    IF calls = <<>> THEN [db |-> l, out |-> <<>>]
    ELSE LET r == ls_apply(e, l, Head(calls))
             rest == ls_run(e, r.db, Tail(calls))
         IN  [db |-> rest.db, out |-> <<[err |-> r.err, val |-> r.val]>> \o rest.out]

(***************************************************************************)
(* Exercise and food repositories.  Both import the IndexedDB engine as db; *)
(* their code differs in the store name and the queries only.  A repository *)
(* result also lists the engine calls the method issued.                    *)
(***************************************************************************)
RRes(db, err, val, calls) == [db |-> db, err |-> err, val |-> val, calls |-> calls]

\* toISOString throws RangeError on an Invalid Date
SerializeError(entity) ==
    IF \E f \in DateFields(entity) : entity[f] = NaT THEN "RangeError: Invalid time value"
    ELSE ""

serialize(entity) ==
    [k \in DOMAIN entity |->
        IF k \in {"date", "createdAt", "updatedAt"} THEN toISOString(entity[k])
        ELSE entity[k]]

\* the stored text read back as a calendar date, the time of day dropped
deserialize_dateOnly(data) ==
    [k \in DOMAIN data |->
        IF k \in {"date", "createdAt", "updatedAt"} THEN startOfDay(NewDate(data[k]))
        ELSE data[k]]

deserialize(data) ==
    [k \in DOMAIN data |->
        IF k \in {"date", "createdAt", "updatedAt"} THEN NewDate(data[k])
        ELSE data[k]]

Repo_getAll(store, e, db) ==
    LET c == [op |-> "getAll", store |-> store]
        r == idb_apply(e, db, c)
    IN  RRes(db, r.err, {deserialize(item) : item \in r.val}, <<c>>)

Repo_getByDateRange(store, e, db, startDate, endDate) ==
    LET c == [op |-> "getByIndexRange", store |-> store, index |-> "date",
              lower |-> toISOString(startOfDay(startDate)),
              upper |-> toISOString(endOfDay(endDate))]
        r == idb_apply(e, db, c)
    IN  RRes(db, r.err, {deserialize(item) : item \in r.val}, <<c>>)

Repo_getByIndex(store, e, db, indexName, value) ==
    LET c == [op |-> "getByIndex", store |-> store, index |-> indexName, value |-> value]
        r == idb_apply(e, db, c)
    IN  RRes(db, r.err, {deserialize(item) : item \in r.val}, <<c>>)

Repo_getById(store, e, db, id) ==
    LET c == [op |-> "getById", store |-> store, id |-> id]
        r == idb_apply(e, db, c)
    IN  RRes(db, r.err, IF r.val /= Null THEN deserialize(r.val) ELSE Null, <<c>>)

Repo_create(store, e, db, entity) ==
    IF SerializeError(entity) /= "" THEN RRes(db, SerializeError(entity), Null, <<>>)
    ELSE LET c == [op |-> "add", store |-> store, item |-> serialize(entity)]
             r == idb_apply(e, db, c)
         IN  RRes(r.db, r.err, IF r.err = "" THEN entity ELSE Null, <<c>>)

\* the spread written in the other order: { ...updates, ...existing, id, updatedAt }
Merged_reversed(existing, updates, id, t) ==
    Spread(Spread(updates, existing), [id |-> id, updatedAt |-> t])

\* { ...existing, ...updates, id, updatedAt: new Date() }
Merged(existing, updates, id, t) ==
    Spread(Spread(existing, updates), [id |-> id, updatedAt |-> t])

\* update that writes the merged record also when the id is not stored
Repo_update_upsert(store, e, db, t, id, updates) ==
    LET g == Repo_getById(store, e, db, id)
        existing == IF g.val = Null THEN [id |-> id] ELSE g.val
        updated == Merged(existing, updates, id, t)
        c == [op |-> "update", store |-> store, item |-> serialize(updated)]
        r == idb_apply(e, db, c)
    IN  RRes(r.db, r.err, IF r.err = "" THEN updated ELSE Null, g.calls \o <<c>>)

Repo_update(store, e, db, t, id, updates) ==
    LET g == Repo_getById(store, e, db, id)
    IN  IF g.err /= "" THEN RRes(db, g.err, Null, g.calls)
        ELSE IF g.val = Null THEN RRes(db, "not found", Null, g.calls)
        ELSE LET updated == Merged(g.val, updates, id, t)
             IN  IF SerializeError(updated) /= ""
                 THEN RRes(db, SerializeError(updated), Null, g.calls)
                 ELSE LET c == [op |-> "update", store |-> store,
                                item |-> serialize(updated)]
                          r == idb_apply(e, db, c)
                      IN  RRes(r.db, r.err, IF r.err = "" THEN updated ELSE Null,
                               g.calls \o <<c>>)

Repo_delete(store, e, db, id) ==
    LET c == [op |-> "deleteById", store |-> store, id |-> id]
        r == idb_apply(e, db, c)
    IN  RRes(r.db, r.err, Null, <<c>>)

ExerciseRepository_getAll(e, db) == Repo_getAll("exercises", e, db)
ExerciseRepository_getByDateRange(e, db, startDate, endDate) ==
    Repo_getByDateRange("exercises", e, db, startDate, endDate)
ExerciseRepository_getByName(e, db, name) ==
    Repo_getByIndex("exercises", e, db, "name", name)
ExerciseRepository_getById(e, db, id) == Repo_getById("exercises", e, db, id)
ExerciseRepository_create(e, db, exercise) == Repo_create("exercises", e, db, exercise)
ExerciseRepository_update(e, db, t, id, updates) ==
    Repo_update("exercises", e, db, t, id, updates)
ExerciseRepository_delete(e, db, id) == Repo_delete("exercises", e, db, id)

FoodRepository_getAll(e, db) == Repo_getAll("foods", e, db)
FoodRepository_getByDate(e, db, date) == Repo_getByDateRange("foods", e, db, date, date)
FoodRepository_getByDateRange(e, db, startDate, endDate) ==
    Repo_getByDateRange("foods", e, db, startDate, endDate)
FoodRepository_getByMealType(e, db, mealType) ==
    Repo_getByIndex("foods", e, db, "mealType", mealType)
FoodRepository_getById(e, db, id) == Repo_getById("foods", e, db, id)
FoodRepository_create(e, db, foodEntry) == Repo_create("foods", e, db, foodEntry)
FoodRepository_update(e, db, t, id, updates) ==
    Repo_update("foods", e, db, t, id, updates)
FoodRepository_delete(e, db, id) == Repo_delete("foods", e, db, id)

(***************************************************************************)
(* Callers' inputs.  Entities come from the factory functions of the domain *)
(* layer (createExercise, createFoodEntry), which stamp both timestamps     *)
(* with the current time; the identifier is the caller's.                   *)
(***************************************************************************)
Set1 == [id |-> "s1", reps |-> 10, weight |-> 135]
Set2 == [id |-> "s2", reps |-> 8, weight |-> 145]
SetsOf(n) == IF n = "Squat" THEN <<Set2, Set1>> ELSE <<Set1>>

createExercise(i, n, d, t) ==
    [id |-> i, name |-> n, date |-> d, sets |-> SetsOf(n), createdAt |-> t, updatedAt |-> t]

createFoodEntry(i, n, d, m, t) ==
    [id |-> i, name |-> n, date |-> d, mealType |-> m, servingSize |-> "1 cup",
     servingMultiplier |-> 1,
     nutrition |-> [calories |-> 300, protein |-> 10, carbs |-> 50, fats |-> 5],
     createdAt |-> t, updatedAt |-> t]

ExerciseInputs(t) == {createExercise(i, n, d, t) : i \in Ids, n \in Names, d \in Dates}
FoodInputs(t) ==
    {createFoodEntry(i, n, d, m, t) : i \in Ids, n \in FoodNames, d \in Dates, m \in MealTypes}

\* Partial<Exercise>, Partial<FoodEntry>: any subset of the fields may be present
ExercisePartials ==
    {[name |-> n] : n \in Names} \cup {[date |-> d] : d \in Dates}
        \cup {[createdAt |-> 0]} \cup {[id |-> i] : i \in Ids}
FoodPartials ==
    {[mealType |-> m] : m \in MealTypes} \cup {[date |-> d] : d \in Dates}
        \cup {[createdAt |-> 0]} \cup {[id |-> i] : i \in Ids}

InputsOf(store, t) == IF store = "exercises" THEN ExerciseInputs(t) ELSE FoodInputs(t)
PartialsOf(store) == IF store = "exercises" THEN ExercisePartials ELSE FoodPartials

EmptyDb == [s \in StoreNames |-> EmptyMap]
EmptyLs == [s \in StoreNames |-> NoItem]
Count(db) == Cardinality(DOMAIN db["exercises"]) + Cardinality(DOMAIN db["foods"])

NoCall == [op |-> "none", err |-> "", val |-> Null]
Idle == [pc |-> "idle"]
Classes == {"ExerciseRepository", "FoodRepository", "UserSettingsRepository",
            "DataExportRepository"}
NoneBuilt == [c \in Classes |-> 0]
NoSnap == [state |-> "none"]

(***************************************************************************)
(* A repository call, awaited to its end.  The engine calls it issued are   *)
(* run on the localStorage engine too, from the same history.               *)
(***************************************************************************)
Complete(r) ==
    /\ idb' = r.db
    /\ ls' = ls_run(env, ls, r.calls).db

Tick ==
    /\ now < MaxNow
    /\ now' = now + 1
    /\ UNCHANGED <<env, idb, ls, last, container, built, task, snap>>

Create(store) ==
    \E entity \in InputsOf(store, now) :
        /\ entity.id \in DOMAIN idb[store] \/ Count(idb) < MaxRecords
        /\ Complete(Repo_create(store, env, idb, entity))
        /\ UNCHANGED <<env, now, last, container, built, task, snap>>

Update(store) ==
    \E id \in Ids, updates \in PartialsOf(store) :
        /\ Complete(Repo_update(store, env, idb, now, id, updates))
        /\ UNCHANGED <<env, now, last, container, built, task, snap>>

Delete(store) ==
    \E id \in Ids :
        /\ Complete(Repo_delete(store, env, idb, id))
        /\ UNCHANGED <<env, now, last, container, built, task, snap>>

Init ==
    /\ env = "indexeddb"
    /\ now = 0
    /\ idb = EmptyDb
    /\ ls = EmptyLs
    /\ last = NoCall
    /\ container = Null
    /\ built = NoneBuilt
    /\ task = Idle
    /\ snap = NoSnap

Next ==
    \/ Tick
    \/ \E store \in {"exercises", "foods"} : Create(store)
    \/ \E store \in {"exercises", "foods"} : Update(store)
    \/ \E store \in {"exercises", "foods"} : Delete(store)

Spec == Init /\ [][Next]_vars

(***************************************************************************)
(* Storage factory (storageFactory.ts).  An instance is the pair of its     *)
(* class and the ordinal of its construction; b counts the constructions.   *)
(***************************************************************************)
detectStorageType(e) ==
    IF e = "none" THEN "none"
    ELSE IF isIndexedDBAvailable(e) THEN "indexeddb"
    ELSE "localstorage"

New(b, class) == <<class, b[class] + 1>>
Count1(b, class) == [b EXCEPT ![class] = @ + 1]

\* new DataExportRepository(): its three private repositories are constructed with it
createDataExportRepository(b) ==
    LET b1 == Count1(b, "ExerciseRepository")
        b2 == Count1(b1, "FoodRepository")
        b3 == Count1(b2, "UserSettingsRepository")
    IN  [instance |-> [id |-> New(b3, "DataExportRepository"),
                       exerciseRepo |-> New(b, "ExerciseRepository"),
                       foodRepo |-> New(b1, "FoodRepository"),
                       settingsRepo |-> New(b2, "UserSettingsRepository")],
         built |-> Count1(b3, "DataExportRepository")]

\* the object literal of createRepositories, its fields evaluated in order
NewContainer(b, e) ==
    LET b1 == Count1(b, "ExerciseRepository")
        b2 == Count1(b1, "FoodRepository")
        b3 == Count1(b2, "UserSettingsRepository")
        x == createDataExportRepository(b3)
    IN  [container |-> [exerciseRepository |-> New(b, "ExerciseRepository"),
                        foodRepository |-> New(b1, "FoodRepository"),
                        userSettingsRepository |-> New(b2, "UserSettingsRepository"),
                        dataExportRepository |-> x.instance,
                        storageType |-> detectStorageType(e)],
         built |-> x.built]

\* every call constructs a new container: the memo test left out
createRepositories_noMemo(c, b, e) == NewContainer(b, e)

createRepositories(c, b, e) ==
    IF c /= Null THEN [container |-> c, built |-> b] ELSE NewContainer(b, e)

getRepositories(c, b, e) == createRepositories(c, b, e)

(***************************************************************************)
(* Specification FactorySpec: callers obtain the container at any moment,   *)
(* also while a repository call is pending, and use its exercise repository *)
(* in whatever runtime the process started in.                              *)
(***************************************************************************)
Envs == {"indexeddb", "localstorage", "none"}
FactoryInputs(t) == {createExercise(i, "Squat", 0, t) : i \in Ids}
FactoryCalls(t) ==
    {[op |-> "create", arg |-> x] : x \in FactoryInputs(t)}
        \cup {[op |-> "getById", arg |-> [id |-> i]] : i \in Ids}
        \cup {[op |-> "update", arg |-> [id |-> i, updates |-> [name |-> "Bench Press"]]] :
                  i \in Ids}
        \cup {[op |-> "delete", arg |-> [id |-> i]] : i \in Ids}

ExerciseCall(e, db, t, call) ==
    CASE call.op = "create" -> ExerciseRepository_create(e, db, call.arg)
      [] call.op = "getById" -> ExerciseRepository_getById(e, db, call.arg.id)
      [] call.op = "update" ->
             ExerciseRepository_update(e, db, t, call.arg.id, call.arg.updates)
      [] call.op = "delete" -> ExerciseRepository_delete(e, db, call.arg.id)

GetRepositories ==
    /\ container' = getRepositories(container, built, env).container
    /\ built' = getRepositories(container, built, env).built
    /\ last' = [op |-> "getRepositories", err |-> "", val |-> container']
    /\ UNCHANGED <<env, now, idb, ls, task, snap>>

CreateRepositories ==
    /\ container' = createRepositories(container, built, env).container
    /\ built' = createRepositories(container, built, env).built
    /\ last' = [op |-> "createRepositories", err |-> "", val |-> container']
    /\ UNCHANGED <<env, now, idb, ls, task, snap>>

\* a caller starts a call on container.exerciseRepository
BeginCall ==
    /\ container /= Null
    /\ task = Idle
    /\ \E call \in FactoryCalls(now) : task' = [pc |-> "pending", call |-> call]
    /\ UNCHANGED <<env, now, idb, ls, last, container, built, snap>>

\* the pending call runs to its end
FinishCall ==
    /\ task.pc = "pending"
    /\ LET r == ExerciseCall(env, idb, now, task.call)
       IN  /\ idb' = r.db
           /\ last' = [op |-> task.call.op, err |-> r.err, val |-> r.val]
    /\ task' = Idle
    /\ UNCHANGED <<env, now, ls, container, built, snap>>

FactoryInit ==
    /\ env \in Envs
    /\ now = 0
    /\ idb = EmptyDb
    /\ ls = EmptyLs
    /\ last = NoCall
    /\ container = Null
    /\ built = NoneBuilt
    /\ task = Idle
    /\ snap = NoSnap

FactoryNext ==
    \/ GetRepositories
    \/ CreateRepositories
    \/ BeginCall
    \/ FinishCall

FactorySpec == FactoryInit /\ [][FactoryNext]_vars

(***************************************************************************)
(* Settings repository (UserSettingsRepository.ts) and export service       *)
(* (DataExportRepository.ts).  get() and update() call each other, so a     *)
(* settings call is a chain of frames; the chain is stepped from one engine *)
(* request to the next.  task.nest is the number of default creations       *)
(* (get -> update(DEFAULT_USER_SETTINGS) -> get) open below the running     *)
(* frame, counted exactly below MaxDepth; MaxDepth stands for that many or  *)
(* more.  task.round is the parity of the getById requests issued so far. *)
(***************************************************************************)
SETTINGS_ID == "user-settings"
EXPORT_VERSION == "1.0.0"
DEFAULT_USER_SETTINGS ==
    [dailyCalorieGoal |-> 2000, weightUnit |-> "lbs", theme |-> "system", updatedAt |-> 0]

UserSettingsRepository_serialize(settings) ==
    Spread([id |-> SETTINGS_ID],
           [k \in DOMAIN settings |->
               IF k = "updatedAt" THEN toISOString(settings[k]) ELSE settings[k]])

UserSettingsRepository_deserialize(data) ==
    [dailyCalorieGoal |-> data.dailyCalorieGoal, weightUnit |-> data.weightUnit,
     theme |-> data.theme, updatedAt |-> NewDate(data.updatedAt)]

\* reset() that writes DEFAULT_USER_SETTINGS as it is, updatedAt included
UserSettingsRepository_reset_stale(e, db, t) ==
    LET r == idb_update(e, db, "settings",
                        UserSettingsRepository_serialize(DEFAULT_USER_SETTINGS))
    IN  Res(r.db, r.err, IF r.err = "" THEN DEFAULT_USER_SETTINGS ELSE Null)

\* reset(): the defaults with a fresh updatedAt, written with db.update
UserSettingsRepository_reset(e, db, t) ==
    LET defaultSettings == Spread(DEFAULT_USER_SETTINGS, [updatedAt |-> t])
        r == idb_update(e, db, "settings", UserSettingsRepository_serialize(defaultSettings))
    IN  Res(r.db, r.err, IF r.err = "" THEN defaultSettings ELSE Null)

\* Partial<UserSettings> as the callers can pass it: an object with some of the
\* fields, and possibly fields beyond them (an imported section is cast to any)
SettingsPartials == {[theme |-> "dark"], [dailyCalorieGoal |-> 1800], [id |-> "profile-2"]}

IdOrder == <<"a", "b">>
RECURSIVE InKeyOrder(_, _)
\* the records of a getAll as the array the caller iterates, in key order
InKeyOrder(entities, ids) ==
    IF ids = <<>> THEN <<>>
    ELSE LET here == {x \in entities : x.id = Head(ids)}
         IN  (IF here = {} THEN <<>> ELSE <<CHOOSE x \in here : TRUE>>)
                 \o InKeyOrder(entities, Tail(ids))

Bump(n) == IF n < MaxDepth THEN n + 1 ELSE MaxDepth
Unwound(n) == IF n = MaxDepth THEN {MaxDepth - 1, MaxDepth} ELSE {n - 1}

Chain(kind, arg) ==
    [pc |-> "get", kind |-> kind, arg |-> arg, nest |-> 0, round |-> 0,
     existing |-> Null, exercises |-> <<>>, foods |-> <<>>, toClear |-> {}]

Done(op, err, val) ==
    /\ task' = Idle
    /\ last' = [op |-> op, err |-> err, val |-> val]

\* the snapshot exportData() returns
ExportSnapshot(t, settings, time) ==
    [exercises |-> [i \in DOMAIN t.exercises |-> serialize(t.exercises[i])],
     foods |-> [i \in DOMAIN t.foods |-> serialize(t.foods[i])],
     settings |-> [settings EXCEPT !.updatedAt = toISOString(settings.updatedAt)],
     exportedAt |-> toISOString(time),
     version |-> EXPORT_VERSION]

\* importData that starts on the snapshot's exercises while stores are still to clear
ImportAdvance_insertFirst(t) ==
    IF t.exercises /= <<>> THEN [t EXCEPT !.pc = "imp_exercise"]
    ELSE IF t.foods /= <<>> THEN [t EXCEPT !.pc = "imp_food"]
    ELSE IF t.toClear /= {} THEN [t EXCEPT !.pc = "imp_clear"]
    ELSE [t EXCEPT !.pc = "get", !.nest = 0,
                   !.arg = [snap.data.settings EXCEPT
                               !.updatedAt = NewDate(snap.data.settings.updatedAt)]]

\* importData after a request of it has completed: the next request it issues
ImportAdvance(t) ==
    IF t.toClear /= {} THEN [t EXCEPT !.pc = "imp_clear"]
    ELSE IF t.exercises /= <<>> THEN [t EXCEPT !.pc = "imp_exercise"]
    ELSE IF t.foods /= <<>> THEN [t EXCEPT !.pc = "imp_food"]
    ELSE [t EXCEPT !.pc = "get", !.nest = 0,
                   !.arg = [snap.data.settings EXCEPT
                               !.updatedAt = NewDate(snap.data.settings.updatedAt)]]

\* nothing is left to clear or insert and the snapshot has no settings section
ImportFinished(t) ==
    /\ t.toClear = {}
    /\ t.exercises = <<>>
    /\ t.foods = <<>>
    /\ snap.data.settings = Null

\* importData goes on to its next request, or resolves
ImportContinues(t) ==
    IF ImportFinished(t) THEN Done("import", "", Null)
    ELSE /\ task' = ImportAdvance(t)
         /\ UNCHANGED last

\* get() at the frame on top returns v to the frame that awaits it
GetReturns(t, v) ==
    IF t.nest > 0 \/ t.kind \in {"update", "import"}
    THEN /\ task' = [t EXCEPT !.pc = "put", !.existing = v]
         /\ UNCHANGED <<last, snap>>
    ELSE IF t.kind = "get"
    THEN /\ Done("get", "", v)
         /\ UNCHANGED snap
    ELSE \* exportData() has its settings: it returns, and importData(snapshot) starts
         /\ snap' = [state |-> "exported", before |-> snap.before,
                     data |-> ExportSnapshot(t, v, now)]
         /\ task' = [t EXCEPT !.pc = "imp_clear", !.kind = "import",
                              !.toClear = StoreNames,
                              !.exercises = snap'.data.exercises,
                              !.foods = snap'.data.foods]
         /\ UNCHANGED last

\* await db.getById(storeName, SETTINGS_ID) in get()
SettingsGet ==
    /\ task.pc = "get"
    /\ LET g == idb_getById(env, idb, "settings", SETTINGS_ID)
           t == [task EXCEPT !.round = 1 - @]
       IN  IF g.err /= "" THEN Done(task.kind, g.err, Null) /\ UNCHANGED snap
           ELSE IF g.val = Null
           THEN \* await this.update(DEFAULT_USER_SETTINGS), which awaits this.get()
                /\ task' = [t EXCEPT !.nest = Bump(@)]
                /\ UNCHANGED <<last, snap>>
           ELSE GetReturns(t, UserSettingsRepository_deserialize(g.val))
    /\ UNCHANGED <<env, now, idb, ls, container, built>>

\* await db.update(storeName, serialized) in update(), and what follows its return
SettingsPut ==
    /\ task.pc = "put"
    /\ LET settings == IF task.nest > 0 THEN DEFAULT_USER_SETTINGS ELSE task.arg
           updated == Spread(Spread(task.existing, settings), [updatedAt |-> now])
           u == idb_update(env, idb, "settings", UserSettingsRepository_serialize(updated))
       IN  /\ idb' = u.db
           /\ IF u.err /= "" THEN Done(task.kind, u.err, Null) /\ UNCHANGED snap
              ELSE IF task.nest > 0
              THEN \* the get() that created the defaults returns DEFAULT_USER_SETTINGS
                   \E n \in Unwound(task.nest) :
                       GetReturns([task EXCEPT !.nest = n], DEFAULT_USER_SETTINGS)
              ELSE Done(task.kind, "", IF task.kind = "update" THEN updated ELSE Null)
                       /\ UNCHANGED snap
    /\ UNCHANGED <<env, now, ls, container, built>>

\* exportData(): await this.exerciseRepo.getAll()
ExportExercises ==
    /\ task.pc = "exp_exercises"
    /\ LET r == ExerciseRepository_getAll(env, idb)
       IN  IF r.err /= "" THEN Done("export", r.err, Null)
           ELSE /\ task' = [task EXCEPT !.pc = "exp_foods",
                                        !.exercises = InKeyOrder(r.val, IdOrder)]
                /\ UNCHANGED last
    /\ UNCHANGED <<env, now, idb, ls, container, built, snap>>

\* exportData(): await this.foodRepo.getAll(), then this.settingsRepo.get() starts
ExportFoods ==
    /\ task.pc = "exp_foods"
    /\ LET r == FoodRepository_getAll(env, idb)
       IN  IF r.err /= "" THEN Done("export", r.err, Null)
           ELSE /\ task' = [task EXCEPT !.pc = "get",
                                        !.foods = InKeyOrder(r.val, IdOrder)]
                /\ UNCHANGED last
    /\ UNCHANGED <<env, now, idb, ls, container, built, snap>>

\* clearAllData(): one of its three clearStore requests completes; Promise.all
\* resolves with the last of them, to importData() or to the caller
ImportClear ==
    /\ task.pc = "imp_clear"
    /\ \E store \in task.toClear :
           LET r == idb_clearStore(env, idb, store)
               t == [task EXCEPT !.toClear = @ \ {store}]
           IN  /\ idb' = r.db
               /\ IF r.err /= "" THEN Done(task.kind, r.err, Null)
                  ELSE IF t.kind = "clearAllData"
                  THEN IF t.toClear = {} THEN Done("clearAllData", "", Null)
                       ELSE task' = t /\ UNCHANGED last
                  ELSE ImportContinues(t)
    /\ UNCHANGED <<env, now, ls, container, built, snap>>

\* importData(): await this.exerciseRepo.create(exerciseData)
ImportExercise ==
    /\ task.pc = "imp_exercise"
    /\ LET r == ExerciseRepository_create(env, idb, deserialize(Head(task.exercises)))
       IN  /\ idb' = r.db
           /\ IF r.err /= "" THEN Done("import", r.err, Null)
              ELSE ImportContinues([task EXCEPT !.exercises = Tail(@)])
    /\ UNCHANGED <<env, now, ls, container, built, snap>>

\* importData(): await this.foodRepo.create(foodData)
ImportFood ==
    /\ task.pc = "imp_food"
    /\ LET r == FoodRepository_create(env, idb, deserialize(Head(task.foods)))
       IN  /\ idb' = r.db
           /\ IF r.err /= "" THEN Done("import", r.err, Null)
              ELSE ImportContinues([task EXCEPT !.foods = Tail(@)])
    /\ UNCHANGED <<env, now, ls, container, built, snap>>

(***************************************************************************)
(* Specification SettingsSpec: one caller, each call awaited before the     *)
(* next; exercises and food entries are logged in between.  snap holds the  *)
(* stores as an export-service call found them, until the next call starts. *)
(***************************************************************************)
SettingsInputs(store, t) ==
    IF store = "exercises" THEN {createExercise(i, "Squat", 1, t) : i \in Ids}
    ELSE {createFoodEntry("a", "Oats", 1, "lunch", t)}

Log(store) ==
    /\ task = Idle
    /\ \E entity \in SettingsInputs(store, now) :
           idb' = Repo_create(store, env, idb, entity).db
    /\ snap' = NoSnap
    /\ UNCHANGED <<env, now, ls, last, container, built, task>>

SettingsTick ==
    /\ task = Idle
    /\ Tick

StartGet ==
    /\ task = Idle
    /\ task' = Chain("get", Null)
    /\ snap' = NoSnap
    /\ UNCHANGED <<env, now, idb, ls, last, container, built>>

StartUpdate ==
    /\ task = Idle
    /\ \E settings \in SettingsPartials : task' = Chain("update", settings)
    /\ snap' = NoSnap
    /\ UNCHANGED <<env, now, idb, ls, last, container, built>>

Reset ==
    /\ task = Idle
    /\ LET r == UserSettingsRepository_reset(env, idb, now)
       IN  /\ idb' = r.db
           /\ last' = [op |-> "reset", err |-> r.err, val |-> r.val]
    /\ snap' = NoSnap
    /\ UNCHANGED <<env, now, ls, container, built, task>>

\* importData(await exportData())
StartRoundTrip ==
    /\ task = Idle
    /\ task' = [Chain("export", Null) EXCEPT !.pc = "exp_exercises"]
    /\ snap' = [state |-> "exporting", before |-> idb, data |-> Null]
    /\ UNCHANGED <<env, now, idb, ls, last, container, built>>

\* snapshots handed to importData: a file of an earlier export, possibly edited
SnapshotExercises ==
    LET xa == serialize(createExercise("a", "Bench Press", 0, 0))
        xb == serialize(createExercise("b", "Bench Press", 0, 0))
    IN  {<<>>, <<xa, xb>>, <<xa, xa>>}
SnapshotFoods == {<<>>, <<serialize(createFoodEntry("b", "Oats", 0, "breakfast", 0))>>}
SnapshotSettings ==
    {Null, [dailyCalorieGoal |-> 1800, weightUnit |-> "kg", theme |-> "dark",
            updatedAt |-> toISOString(0)]}
Snapshots ==
    {[exercises |-> xs, foods |-> fs, settings |-> st,
      exportedAt |-> toISOString(0), version |-> EXPORT_VERSION] :
        xs \in SnapshotExercises, fs \in SnapshotFoods, st \in SnapshotSettings}

\* importData(data) on a snapshot of the caller
StartImport ==
    /\ task = Idle
    /\ \E data \in Snapshots :
           /\ snap' = [state |-> "importing", before |-> idb, data |-> data]
           /\ task' = [Chain("import", Null) EXCEPT !.pc = "imp_clear",
                                                    !.toClear = StoreNames,
                                                    !.exercises = data.exercises,
                                                    !.foods = data.foods]
    /\ UNCHANGED <<env, now, idb, ls, last, container, built>>

\* clearAllData() called on its own
StartClear ==
    /\ task = Idle
    /\ task' = [Chain("clearAllData", Null) EXCEPT !.pc = "imp_clear",
                                                   !.toClear = StoreNames]
    /\ snap' = [state |-> "clearing", before |-> idb, data |-> Null]
    /\ UNCHANGED <<env, now, idb, ls, last, container, built>>

SettingsStep ==
    \/ SettingsGet
    \/ SettingsPut
    \/ ExportExercises
    \/ ExportFoods
    \/ ImportClear
    \/ ImportExercise
    \/ ImportFood

SettingsNext ==
    \/ SettingsTick
    \/ \E store \in {"exercises", "foods"} : Log(store)
    \/ StartGet
    \/ StartUpdate
    \/ Reset
    \/ StartRoundTrip
    \/ StartClear
    \/ SettingsStep

SettingsSpec == Init /\ [][SettingsNext]_vars

\* every engine request in flight completes: the event loop runs the chain on
FairSettingsSpec == SettingsSpec /\ WF_vars(SettingsStep)

(***************************************************************************)
(* Specification ImportSpec: the caller imports snapshot files into a       *)
(* dataset that was logged before.                                          *)
(***************************************************************************)
ImportNext ==
    \/ SettingsTick
    \/ \E store \in {"exercises", "foods"} : Log(store)
    \/ Reset
    \/ StartImport
    \/ ImportClear
    \/ ImportExercise
    \/ ImportFood
    \/ SettingsGet

ImportSpec == Init /\ [][ImportNext]_vars

(***************************************************************************)
(* Specification FaultSpec: the engines and the repositories over stored    *)
(* content they did not write themselves: text under a store's localStorage *)
(* key that JSON.parse rejects, and records whose date text new Date()      *)
(* cannot read.  The process runs in any of the three runtimes.             *)
(***************************************************************************)
BadText == <<>>
Unparseable == [kind |-> "garbled", data |-> EmptyMap]

CorruptExercise == [serialize(createExercise("a", "Squat", 0, 0)) EXCEPT !.createdAt = BadText]
CorruptFood ==
    [serialize(createFoodEntry("a", "Oats", 0, "lunch", 0)) EXCEPT !.createdAt = BadText]
CorruptSettings ==
    [UserSettingsRepository_serialize(DEFAULT_USER_SETTINGS) EXCEPT !.updatedAt = BadText]

FaultDbs ==
    {[exercises |-> x, foods |-> f, settings |-> u] :
        x \in {EmptyMap, Put(EmptyMap, "a", CorruptExercise)},
        f \in {EmptyMap, Put(EmptyMap, "a", CorruptFood)},
        u \in {EmptyMap, Put(EmptyMap, SETTINGS_ID, CorruptSettings)}}
FaultLs ==
    {[exercises |-> x, foods |-> f, settings |-> NoItem] :
        x \in {NoItem, Unparseable}, f \in {NoItem, Unparseable}}

FaultItems == {serialize(createExercise(i, "Squat", 0, 0)) : i \in Ids}
\* calls on the localStorage engine's exported functions
FaultCalls ==
    {[op |-> "getById", store |-> "exercises", id |-> "a"],
     [op |-> "getAll", store |-> "exercises"],
     [op |-> "deleteById", store |-> "exercises", id |-> "a"]}
        \cup {[op |-> "add", store |-> "exercises", item |-> x] : x \in FaultItems}
        \cup {[op |-> "update", store |-> "exercises", item |-> x] : x \in FaultItems}

\* the repositories' reads
FaultReads ==
    {[op |-> o, store |-> st] : o \in {"getById", "getAll", "getByDateRange"},
                                st \in {"exercises", "foods"}}
        \cup {[op |-> "getByName", store |-> "exercises"],
              [op |-> "getByMealType", store |-> "foods"]}

RepoRead(e, db, rd) ==
    CASE rd.op = "getById" -> Repo_getById(rd.store, e, db, "a")
      [] rd.op = "getAll" -> Repo_getAll(rd.store, e, db)
      [] rd.op = "getByDateRange" -> Repo_getByDateRange(rd.store, e, db, 0, 0)
      [] rd.op = "getByName" -> ExerciseRepository_getByName(e, db, "Squat")
      [] rd.op = "getByMealType" -> FoodRepository_getByMealType(e, db, "lunch")

EngineCall ==
    /\ \E c \in FaultCalls :
           LET r == ls_apply(env, ls, c)
           IN  /\ ls' = r.db
               /\ last' = [op |-> c.op, err |-> r.err, val |-> r.val]
    /\ UNCHANGED <<env, now, idb, container, built, task, snap>>

Read ==
    /\ \E rd \in FaultReads :
           LET r == RepoRead(env, idb, rd)
           IN  last' = [op |-> rd.op, err |-> r.err, val |-> r.val]
    /\ UNCHANGED <<env, now, idb, ls, container, built, task, snap>>

FaultInit ==
    /\ env \in Envs
    /\ now = 0
    /\ idb \in FaultDbs
    /\ ls \in FaultLs
    /\ last = NoCall
    /\ container = Null
    /\ built = NoneBuilt
    /\ task = Idle
    /\ snap = NoSnap

FaultNext ==
    \/ EngineCall
    \/ Read
    \/ StartGet
    \/ SettingsGet

FaultSpec == FaultInit /\ [][FaultNext]_vars

(***************************************************************************)
(* FoodRepository.getRecentFoodNames and specification RecentSpec: food     *)
(* entries of two names are logged as the clock advances.                   *)
(***************************************************************************)
RECURSIVE InsertByCreatedAt(_, _)
\* x placed behind the entries created at its time or later
InsertByCreatedAt(x, sorted) ==
    IF sorted = <<>> THEN <<x>>
    ELSE IF Head(sorted).createdAt >= x.createdAt
         THEN <<Head(sorted)>> \o InsertByCreatedAt(x, Tail(sorted))
         ELSE <<x>> \o sorted

RECURSIVE SortByCreatedAtDesc(_)
\* allFoods.sort((a, b) => b.createdAt.getTime() - a.createdAt.getTime()): stable
SortByCreatedAtDesc(foods) ==
    IF foods = <<>> THEN <<>>
    ELSE InsertByCreatedAt(foods[Len(foods)],
                           SortByCreatedAtDesc(SubSeq(foods, 1, Len(foods) - 1)))

SeqToSet(seq) == {seq[i] : i \in DOMAIN seq}

RECURSIVE UniqueNames(_, _, _)
\* the loop over sorted: add the name, then break once the set has limit names
UniqueNames(sorted, uniqueNames, limit) ==
    IF sorted = <<>> THEN uniqueNames
    ELSE LET added == IF Head(sorted).name \in SeqToSet(uniqueNames) THEN uniqueNames
                      ELSE Append(uniqueNames, Head(sorted).name)
         IN  IF Len(added) >= limit THEN added
             ELSE UniqueNames(Tail(sorted), added, limit)

FoodRepository_getRecentFoodNames(e, db, limit) ==
    LET r == FoodRepository_getAll(e, db)
    IN  IF r.err /= "" THEN RRes(db, r.err, <<>>, r.calls)
        ELSE RRes(db, "",
                  UniqueNames(SortByCreatedAtDesc(InKeyOrder(r.val, IdOrder)), <<>>, limit),
                  r.calls)

RecentNames == {"Oats", "Rice"}
Limits == {0, 1, 2}
RecentInputs(t) ==
    {createFoodEntry(i, n, 0, "breakfast", t) : i \in Ids, n \in RecentNames}

LogFood ==
    /\ \E entity \in RecentInputs(now) :
           idb' = FoodRepository_create(env, idb, entity).db
    /\ UNCHANGED <<env, now, ls, last, container, built, task, snap>>

RemoveFood ==
    /\ \E id \in Ids : idb' = FoodRepository_delete(env, idb, id).db
    /\ UNCHANGED <<env, now, ls, last, container, built, task, snap>>

GetRecentFoodNames ==
    /\ \E limit \in Limits :
           LET r == FoodRepository_getRecentFoodNames(env, idb, limit)
           IN  last' = [op |-> "getRecentFoodNames", err |-> r.err, val |-> r.val,
                        limit |-> limit]
    /\ UNCHANGED <<env, now, idb, ls, container, built, task, snap>>

RecentNext ==
    \/ Tick
    \/ LogFood
    \/ RemoveFood
    \/ GetRecentFoodNames

RecentSpec == Init /\ [][RecentNext]_vars

(***************************************************************************)
(* Specification TxnSpec: one function of the IndexedDB engine at a time,   *)
(* stepped by the events it waits for: the open request, the store request, *)
(* and the end of its transaction.  task.open counts the connections that   *)
(* openDatabase() has handed out and db.close() has not closed.  The        *)
(* promise settles with the store request (last); the write takes effect    *)
(* when the transaction completes.                                          *)
(***************************************************************************)
MaxOpen == 2

TxnItems ==
    FaultItems \cup {serialize(createExercise("a", "Bench Press", 1, 0))}
TxnCalls ==
    {[op |-> "add", store |-> "exercises", item |-> x] : x \in TxnItems}
        \cup {[op |-> "update", store |-> "exercises", item |-> x] : x \in TxnItems}
        \cup {[op |-> "getById", store |-> "exercises", id |-> "a"],
              [op |-> "deleteById", store |-> "exercises", id |-> "a"],
              [op |-> "clearStore", store |-> "exercises"],
              [op |-> "getByIndexRange", store |-> "exercises", index |-> "date",
               lower |-> toISOString(0), upper |-> toISOString(1)],
              [op |-> "getByIndexRange", store |-> "exercises", index |-> "date",
               lower |-> toISOString(DayLen), upper |-> toISOString(0)]}
WriteOps == {"add", "update", "deleteById", "clearStore"}

Settled(c, err, val) == [op |-> c.op, store |-> c.store, err |-> err, val |-> val]

\* an engine function is called: await openDatabase()
TxnStart ==
    /\ task.pc = "idle"
    /\ task.open < MaxOpen
    /\ \E c \in TxnCalls : task' = [task EXCEPT !.pc = "opening", !.call = c]
    /\ UNCHANGED <<env, now, idb, ls, last, container, built, snap>>

\* open request.onerror: the promise rejects, no connection was handed out
OpenFails ==
    /\ task.pc = "opening"
    /\ task' = [task EXCEPT !.pc = "idle"]
    /\ last' = Settled(task.call, "Failed to open database", Null)
    /\ UNCHANGED <<env, now, idb, ls, container, built, snap>>

\* open request.onsuccess: the executor creates the transaction and the store
\* request; an exception in it (IDBKeyRange.bound) rejects the promise before
\* transaction.oncomplete is assigned
OpenSucceeds ==
    /\ task.pc = "opening"
    /\ LET r == idb_apply(env, idb, task.call)
       IN  IF r.err = "DataError"
           THEN /\ task' = [task EXCEPT !.pc = "idle", !.open = @ + 1]
                /\ last' = Settled(task.call, r.err, Null)
           ELSE /\ task' = [task EXCEPT !.pc = "request", !.open = @ + 1]
                /\ UNCHANGED last
    /\ UNCHANGED <<env, now, idb, ls, container, built, snap>>

\* request.onsuccess: the promise resolves; the transaction is still to commit
RequestSucceeds ==
    /\ task.pc = "request"
    /\ LET r == idb_apply(env, idb, task.call)
       IN  /\ r.err = ""
           /\ task' = [task EXCEPT !.pc = "committing", !.pending = r.db]
           /\ last' = Settled(task.call, "", r.val)
    /\ UNCHANGED <<env, now, idb, ls, container, built, snap>>

\* request.onerror: the promise rejects and the transaction aborts, so
\* transaction.oncomplete does not fire
RequestFails ==
    /\ task.pc = "request"
    /\ LET r == idb_apply(env, idb, task.call)
       IN  /\ r.err /= ""
           /\ task' = [task EXCEPT !.pc = "idle"]
           /\ last' = Settled(task.call, r.err, Null)
    /\ UNCHANGED <<env, now, idb, ls, container, built, snap>>

\* transaction.oncomplete: the write is committed and db.close() runs
TxnComplete ==
    /\ task.pc = "committing"
    /\ idb' = task.pending
    /\ task' = [task EXCEPT !.pc = "idle", !.open = @ - 1, !.pending = Null]
    /\ UNCHANGED <<env, now, ls, last, container, built, snap>>

\* the transaction of a write aborts at commit (quota, disk): nothing it did
\* is kept, and no handler of the function observes it
TxnAbort ==
    /\ task.pc = "committing"
    /\ task.call.op \in WriteOps
    /\ task' = [task EXCEPT !.pc = "idle", !.pending = Null]
    /\ UNCHANGED <<env, now, idb, ls, last, container, built, snap>>

TxnInit ==
    /\ env = "indexeddb"
    /\ now = 0
    /\ idb = EmptyDb
    /\ ls = EmptyLs
    /\ last = NoCall
    /\ container = Null
    /\ built = NoneBuilt
    /\ task = [pc |-> "idle", open |-> 0, call |-> Null, pending |-> Null]
    /\ snap = NoSnap

TxnNext ==
    \/ TxnStart
    \/ OpenFails
    \/ OpenSucceeds
    \/ RequestSucceeds
    \/ RequestFails
    \/ TxnComplete
    \/ TxnAbort

TxnSpec == TxnInit /\ [][TxnNext]_vars

(***************************************************************************)
(* Specification ApiSpec: the USDA search service.  The clock counts half   *)
(* seconds.  task holds the module's lastRequestTime and searchCache and    *)
(* the position of every pending searchFoods call; last is the list of the  *)
(* times at which fetch was called.                                         *)
(***************************************************************************)
MaxClock == 3
MaxRequests == 3
Callers == {"c1", "c2", "c3"}
Queries == {<<"a">>, <<"a", "b">>, <<" ", "A", "b">>}

MIN_REQUEST_INTERVAL == 2
CACHE_DURATION == 60 * 30 * MIN_REQUEST_INTERVAL
PageLoad == MIN_REQUEST_INTERVAL

RECURSIVE trimStart(_)
trimStart(q) == IF q /= <<>> /\ Head(q) = " " THEN trimStart(Tail(q)) ELSE q
RECURSIVE trimEnd(_)
trimEnd(q) ==
    IF q /= <<>> /\ q[Len(q)] = " " THEN trimEnd(SubSeq(q, 1, Len(q) - 1)) ELSE q
trim(q) == trimEnd(trimStart(q))
toLowerCase(q) == [i \in DOMAIN q |-> IF q[i] = "A" THEN "a" ELSE q[i]]
normalizedQuery(q) == toLowerCase(trim(q))

\* what the service answers for a query: one food per query text
parseUSDAFood(q) == <<[description |-> toLowerCase(trim(q))]>>

Outcome(err, val) == [err |-> err, val |-> val]
Waiting == [pc |-> "idle", query |-> <<>>, wake |-> 0, out |-> Null]
Cached(q) ==
    /\ normalizedQuery(q) \in DOMAIN task.searchCache
    /\ now - task.searchCache[normalizedQuery(q)].timestamp < CACHE_DURATION

\* lastRequestTime = Date.now(); fetch(...)
Fetch(c, q) ==
    /\ task' = [task EXCEPT !.lastRequestTime = now,
                            !.calls[c] = [pc |-> "fetching", query |-> q,
                                          wake |-> 0, out |-> Null]]
    /\ last' = Append(last, now)

\* searchFoods(query) up to its first await
SearchFoods(c) ==
    /\ task.calls[c].pc = "idle"
    /\ Len(last) < MaxRequests
    /\ \E q \in Queries :
           IF Len(trim(q)) < 2
           THEN /\ task' = [task EXCEPT !.calls[c].out = Outcome("", <<>>)]
                /\ UNCHANGED last
           ELSE IF Cached(q)
           THEN /\ task' = [task EXCEPT !.calls[c].out =
                                Outcome("", task.searchCache[normalizedQuery(q)].results)]
                /\ UNCHANGED last
           ELSE LET timeSinceLastRequest == now - task.lastRequestTime
                IN  IF timeSinceLastRequest < MIN_REQUEST_INTERVAL
                    THEN /\ task' = [task EXCEPT !.calls[c] =
                                        [pc |-> "waiting", query |-> q,
                                         wake |-> now + (MIN_REQUEST_INTERVAL
                                                         - timeSinceLastRequest),
                                         out |-> Null]]
                         /\ UNCHANGED last
                    ELSE Fetch(c, q)
    /\ UNCHANGED <<env, now, idb, ls, container, built, snap>>

\* the timer of the rate limiter fires, not before its delay has passed
TimerFires(c) ==
    /\ task.calls[c].pc = "waiting"
    /\ now >= task.calls[c].wake
    /\ Fetch(c, task.calls[c].query)
    /\ UNCHANGED <<env, now, idb, ls, container, built, snap>>

\* the response arrives and is parsed: the results are cached and returned
ResponseOk(c) ==
    /\ task.calls[c].pc = "fetching"
    /\ LET q == task.calls[c].query
           results == parseUSDAFood(q)
       IN  task' = [task EXCEPT
                       !.searchCache = Put(@, normalizedQuery(q),
                                           [results |-> results, timestamp |-> now]),
                       !.calls[c] = [Waiting EXCEPT !.out = Outcome("", results)]]
    /\ UNCHANGED <<env, now, idb, ls, last, container, built, snap>>

\* fetch rejects or the status is not ok
ResponseFails(c) ==
    /\ task.calls[c].pc = "fetching"
    /\ task' = [task EXCEPT !.calls[c] =
                   [Waiting EXCEPT !.out =
                       Outcome("Failed to search foods. Please try manual entry.", Null)]]
    /\ UNCHANGED <<env, now, idb, ls, last, container, built, snap>>

clearFoodSearchCache ==
    /\ task.searchCache /= EmptyMap
    /\ task' = [task EXCEPT !.searchCache = EmptyMap]
    /\ UNCHANGED <<env, now, idb, ls, last, container, built, snap>>

ApiTick ==
    /\ now < PageLoad + MaxClock
    /\ now' = now + 1
    /\ UNCHANGED <<env, idb, ls, last, container, built, task, snap>>

ApiInit ==
    /\ env = "indexeddb"
    /\ now = PageLoad
    /\ idb = EmptyDb
    /\ ls = EmptyLs
    /\ last = <<>>
    /\ container = Null
    /\ built = NoneBuilt
    /\ task = [lastRequestTime |-> 0, searchCache |-> EmptyMap,
               calls |-> [c \in Callers |-> Waiting]]
    /\ snap = NoSnap

ApiNext ==
    \/ \E c \in Callers : SearchFoods(c)
    \/ \E c \in Callers : TimerFires(c)
    \/ \E c \in Callers : ResponseOk(c)
    \/ \E c \in Callers : ResponseFails(c)
    \/ clearFoodSearchCache
    \/ ApiTick

ApiSpec == ApiInit /\ [][ApiNext]_vars

(***************************************************************************)
(* Specification RaceSpec: repository calls issued without awaiting one     *)
(* another.  Every await of a call is a step of its own, and the steps of   *)
(* the calls in flight interleave.  A transaction of the IndexedDB engine   *)
(* and a function of the localStorage engine (which awaits nothing) are one *)
(* step each.  task.calls holds the position of each caller's call,         *)
(* task.started counts the calls issued; snap.deleted are the ids whose     *)
(* delete has resolved with no create resolved since; a pending exportData  *)
(* collects in seen the store contents that existed while it ran.           *)
(***************************************************************************)
MaxCalls == 3
Procs == {"p", "q"}

RaceCalls(t) ==
    {[op |-> "create", store |-> "exercises", id |-> "a", arg |-> createExercise("a", n, 0, t)] :
         n \in Names}
        \cup {[op |-> "create", store |-> "foods", id |-> "a",
               arg |-> createFoodEntry("a", "Oats", 0, "lunch", t)]}
        \cup {[op |-> "update", store |-> "exercises", id |-> "a", arg |-> u] :
                  u \in {[name |-> "Deadlift"], [date |-> DayLen]}}
        \cup {[op |-> "delete", store |-> "exercises", id |-> "a", arg |-> Null]}
        \cup {[op |-> "exportData", store |-> "exercises", id |-> "", arg |-> Null]}
        \cup {[op |-> o, store |-> "exercises", id |-> "a",
               arg |-> serialize(createExercise("a", n, 0, t))] :
                  o \in {"idb.add", "ls.add"}, n \in Names}

NoRace == [pc |-> "idle", call |-> [op |-> "none"], existing |-> Null,
           overlap |-> FALSE, absent |-> FALSE, seen |-> {}, err |-> "", val |-> Null]
InFlight(c) == c.pc \notin {"idle", "settled"}
CreateOps == {"create", "idb.add", "ls.add"}

\* a pending exportData of another caller sees the stores as they now are
Observe(calls, p, d) ==
    [o \in Procs |->
        IF o /= p /\ InFlight(calls[o]) /\ calls[o].call.op = "exportData"
        THEN [calls[o] EXCEPT !.seen = @ \cup {d}]
        ELSE calls[o]]

\* the promise of p's call settles
Settle(p, d, err, val) ==
    task' = [task EXCEPT !.calls =
                Observe([task.calls EXCEPT ![p].pc = "settled", ![p].err = err,
                                           ![p].val = val], p, d)]

\* a caller issues a call and does not await it
RaceStart(p) ==
    /\ ~InFlight(task.calls[p])
    /\ task.started < MaxCalls
    /\ \E c \in RaceCalls(now) :
           LET others == \E o \in Procs \ {p} : InFlight(task.calls[o])
               stored == IF c.op = "ls.add" THEN DOMAIN ls_getStoreData(env, ls, c.store)
                         ELSE DOMAIN idb[c.store]
           IN  task' = [started |-> task.started + 1,
                        calls |-> [o \in Procs |->
                            IF o = p
                            THEN [NoRace EXCEPT !.pc = "pending", !.call = c,
                                                !.overlap = others,
                                                !.absent = c.id \notin stored,
                                                !.seen = IF c.op = "exportData" THEN {idb}
                                                         ELSE {}]
                            ELSE IF InFlight(task.calls[o])
                            THEN [task.calls[o] EXCEPT !.overlap = TRUE]
                            ELSE task.calls[o]]]
    /\ UNCHANGED <<env, now, idb, ls, last, container, built, snap>>

\* create: serialize, then the engine's add
RaceCreate(p) ==
    LET c == task.calls[p].call
        r == Repo_create(c.store, env, idb, c.arg)
    IN  /\ task.calls[p].pc = "pending"
        /\ c.op = "create"
        /\ idb' = r.db
        /\ Settle(p, r.db, r.err, r.val)
        /\ snap' = IF r.err = "" THEN [snap EXCEPT !.deleted = @ \ {<<c.store, c.id>>}]
                   ELSE snap
        /\ UNCHANGED <<env, now, ls, last, container, built>>

\* add of the IndexedDB engine, called directly
RaceIdbAdd(p) ==
    LET c == task.calls[p].call
        r == idb_add(env, idb, c.store, c.arg)
    IN  /\ task.calls[p].pc = "pending"
        /\ c.op = "idb.add"
        /\ idb' = r.db
        /\ Settle(p, r.db, r.err, r.val)
        /\ snap' = IF r.err = "" THEN [snap EXCEPT !.deleted = @ \ {<<c.store, c.id>>}]
                   ELSE snap
        /\ UNCHANGED <<env, now, ls, last, container, built>>

\* add of the localStorage engine, called directly
RaceLsAdd(p) ==
    LET c == task.calls[p].call
        r == ls_add(env, ls, c.store, c.arg)
    IN  /\ task.calls[p].pc = "pending"
        /\ c.op = "ls.add"
        /\ ls' = r.db
        /\ Settle(p, idb, r.err, r.val)
        /\ UNCHANGED <<env, now, idb, last, container, built, snap>>

\* delete: the engine's deleteById
RaceDelete(p) ==
    LET c == task.calls[p].call
        r == Repo_delete(c.store, env, idb, c.id)
    IN  /\ task.calls[p].pc = "pending"
        /\ c.op = "delete"
        /\ idb' = r.db
        /\ Settle(p, r.db, r.err, r.val)
        /\ snap' = IF r.err = "" THEN [snap EXCEPT !.deleted = @ \cup {<<c.store, c.id>>}]
                   ELSE snap
        /\ UNCHANGED <<env, now, ls, last, container, built>>

\* update, first await: existing = await this.getById(id)
RaceUpdateRead(p) ==
    LET c == task.calls[p].call
        g == Repo_getById(c.store, env, idb, c.id)
    IN  /\ task.calls[p].pc = "pending"
        /\ c.op = "update"
        /\ IF g.err /= "" THEN Settle(p, idb, g.err, Null)
           ELSE IF g.val = Null THEN Settle(p, idb, "not found", Null)
           ELSE task' = [task EXCEPT !.calls[p].pc = "read",
                                     !.calls[p].existing = g.val]
        /\ UNCHANGED <<env, now, idb, ls, last, container, built, snap>>

\* update, second await: the merged record is put with db.update
RaceUpdateWrite(p) ==
    LET c == task.calls[p].call
        updated == Merged(task.calls[p].existing, c.arg, c.id, now)
        r == idb_update(env, idb, c.store, serialize(updated))
    IN  /\ task.calls[p].pc = "read"
        /\ IF SerializeError(updated) /= ""
           THEN /\ Settle(p, idb, SerializeError(updated), Null)
                /\ UNCHANGED idb
           ELSE /\ idb' = r.db
                /\ Settle(p, r.db, r.err, IF r.err = "" THEN updated ELSE Null)
        /\ UNCHANGED <<env, now, ls, last, container, built, snap>>

\* exportData, first await: this.exerciseRepo.getAll()
RaceExportExercises(p) ==
    LET r == Repo_getAll("exercises", env, idb)
    IN  /\ task.calls[p].pc = "pending"
        /\ task.calls[p].call.op = "exportData"
        /\ IF r.err /= "" THEN Settle(p, idb, r.err, Null)
           ELSE task' = [task EXCEPT !.calls[p].pc = "exp_foods",
                                     !.calls[p].existing =
                                         [exercises |-> InKeyOrder(r.val, IdOrder)]]
        /\ UNCHANGED <<env, now, idb, ls, last, container, built, snap>>

\* exportData, second await: this.foodRepo.getAll()
RaceExportFoods(p) ==
    LET r == Repo_getAll("foods", env, idb)
    IN  /\ task.calls[p].pc = "exp_foods"
        /\ IF r.err /= "" THEN Settle(p, idb, r.err, Null)
           ELSE task' = [task EXCEPT !.calls[p].pc = "exp_settings",
                                     !.calls[p].existing =
                                         [exercises |-> @.exercises,
                                          foods |-> InKeyOrder(r.val, IdOrder)]]
        /\ UNCHANGED <<env, now, idb, ls, last, container, built, snap>>

\* exportData, third await: this.settingsRepo.get() on a stored settings record
RaceExportSettings(p) ==
    /\ task.calls[p].pc = "exp_settings"
    /\ SETTINGS_ID \in DOMAIN idb["settings"]
    /\ Settle(p, idb, "",
              ExportSnapshot(task.calls[p].existing,
                             UserSettingsRepository_deserialize(idb["settings"][SETTINGS_ID]),
                             now))
    /\ UNCHANGED <<env, now, idb, ls, last, container, built, snap>>

RaceInit ==
    /\ env = "indexeddb"
    /\ now = 0
    /\ idb = UserSettingsRepository_reset("indexeddb", EmptyDb, 0).db
    /\ ls = EmptyLs
    /\ last = NoCall
    /\ container = Null
    /\ built = NoneBuilt
    /\ task = [started |-> 0, calls |-> [p \in Procs |-> NoRace]]
    /\ snap = [deleted |-> {}]

RaceNext ==
    \E p \in Procs :
        \/ RaceStart(p)
        \/ RaceCreate(p)
        \/ RaceIdbAdd(p)
        \/ RaceLsAdd(p)
        \/ RaceDelete(p)
        \/ RaceUpdateRead(p)
        \/ RaceUpdateWrite(p)
        \/ RaceExportExercises(p)
        \/ RaceExportFoods(p)
        \/ RaceExportSettings(p)

RaceSpec == RaceInit /\ [][RaceNext]_vars

(***************************************************************************)
(* Specification PageSpec: the exercises page and its form.  task holds the *)
(* page's showForm and editingExercise, the hook's error, and the state of  *)
(* the mounted ExerciseForm (form, Null while no form is shown).  last is   *)
(* what the latest submit of the form did.                                  *)
(***************************************************************************)
MaxSets == 2
NameTexts == {"", " ", "Squat"}
RepsTexts == {"", "0", "10"}
WeightTexts == {"", "135"}

trimText(s) == IF s = " " THEN "" ELSE s
parseInt(s) == CASE s = "10" -> 10 [] s = "0" -> 0
parseFloat(s) == CASE s = "135" -> 135 [] s = "0" -> 0
NumberText(n) == CASE n = 10 -> "10" [] n = 135 -> "135" [] n = 0 -> "0"
Uuid(i) == IF i = 1 THEN "s1" ELSE "s2"

createExerciseSet(i, reps, weight) == [id |-> Uuid(i), reps |-> reps, weight |-> weight]

\* useState initialisers of ExerciseForm
MountForm(initialExercise) ==
    [name |-> IF initialExercise /= Null THEN initialExercise.name ELSE "",
     day |-> IF initialExercise /= Null THEN initialExercise.date \div DayLen
             ELSE now \div DayLen,
     sets |-> IF initialExercise /= Null
              THEN [i \in DOMAIN initialExercise.sets |->
                       [reps |-> NumberText(initialExercise.sets[i].reps),
                        weight |-> NumberText(initialExercise.sets[i].weight)]]
              ELSE <<[reps |-> "", weight |-> ""]>>,
     error |-> ""]

validateForm(f) ==
    IF trimText(f.name) = "" THEN "Exercise name is required"
    ELSE IF f.sets = <<>> THEN "At least one set is required"
    ELSE IF \E i \in DOMAIN f.sets : f.sets[i].reps = "" \/ f.sets[i].weight = ""
    THEN "All sets must have reps and weight"
    ELSE IF \E i \in DOMAIN f.sets :
                parseInt(f.sets[i].reps) <= 0 \/ parseFloat(f.sets[i].weight) < 0
    THEN "Reps must be positive and weight must be non-negative"
    ELSE ""

\* the header's add button: setShowForm(true)
OpenForm ==
    /\ ~task.showForm
    /\ task' = [task EXCEPT !.showForm = TRUE, !.form = MountForm(task.editingExercise)]
    /\ UNCHANGED <<env, now, idb, ls, last, container, built, snap>>

handleEdit ==
    /\ ~task.showForm
    /\ \E id \in DOMAIN idb["exercises"] :
           LET exercise == deserialize(idb["exercises"][id])
           IN  task' = [task EXCEPT !.showForm = TRUE, !.editingExercise = exercise,
                                    !.form = MountForm(exercise)]
    /\ UNCHANGED <<env, now, idb, ls, last, container, built, snap>>

handleCancel ==
    /\ task.showForm
    /\ task' = [task EXCEPT !.showForm = FALSE, !.editingExercise = Null, !.form = Null]
    /\ UNCHANGED <<env, now, idb, ls, last, container, built, snap>>

handleUseTemplate ==
    /\ ~task.showForm
    /\ \E exerciseName \in Names :
           LET placeholder == [id |-> "", name |-> exerciseName, date |-> now,
                               sets |-> <<>>, createdAt |-> now, updatedAt |-> now]
           IN  task' = [task EXCEPT !.showForm = TRUE, !.editingExercise = placeholder,
                                    !.form = MountForm(placeholder)]
    /\ UNCHANGED <<env, now, idb, ls, last, container, built, snap>>

setName ==
    /\ task.showForm
    /\ \E n \in NameTexts : task' = [task EXCEPT !.form.name = n]
    /\ UNCHANGED <<env, now, idb, ls, last, container, built, snap>>

addSet ==
    /\ task.showForm
    /\ Len(task.form.sets) < MaxSets
    /\ LET sets == task.form.sets
           weight == IF sets = <<>> THEN "" ELSE sets[Len(sets)].weight
       IN  task' = [task EXCEPT !.form.sets = Append(sets, [reps |-> "", weight |-> weight])]
    /\ UNCHANGED <<env, now, idb, ls, last, container, built, snap>>

removeSet ==
    /\ task.showForm
    /\ Len(task.form.sets) > 1
    /\ \E i \in DOMAIN task.form.sets :
           task' = [task EXCEPT !.form.sets =
                       SubSeq(@, 1, i - 1) \o SubSeq(@, i + 1, Len(@))]
    /\ UNCHANGED <<env, now, idb, ls, last, container, built, snap>>

updateSet ==
    /\ task.showForm
    /\ \E i \in DOMAIN task.form.sets :
           \/ \E v \in RepsTexts : task' = [task EXCEPT !.form.sets[i].reps = v]
           \/ \E v \in WeightTexts : task' = [task EXCEPT !.form.sets[i].weight = v]
    /\ UNCHANGED <<env, now, idb, ls, last, container, built, snap>>

\* the exercise ExerciseForm.handleSubmit passes to onSubmit
SubmittedExercise(f, initialExercise, uuid) ==
    LET exerciseSets == [i \in DOMAIN f.sets |->
                            createExerciseSet(i, parseInt(f.sets[i].reps),
                                              parseFloat(f.sets[i].weight))]
        entered == [name |-> trimText(f.name), date |-> f.day * DayLen,
                    sets |-> exerciseSets]
    IN  IF initialExercise /= Null
        THEN Spread(initialExercise, Spread(entered, [updatedAt |-> now]))
        ELSE Spread(entered, [id |-> uuid, createdAt |-> now, updatedAt |-> now])

Submitted(routed, err, before, after, t) ==
    [op |-> "submit", routed |-> routed, err |-> err,
     template |-> task.editingExercise /= Null /\ task.editingExercise.id = "",
     grew |-> Cardinality(DOMAIN after["exercises"])
                  = Cardinality(DOMAIN before["exercises"]) + 1,
     closed |-> ~t.showForm]

\* ExerciseForm.handleSubmit, with the page's handleSubmit it awaits and the
\* hook's addExercise / updateExercise behind that
FormSubmit ==
    /\ task.showForm
    /\ IF validateForm(task.form) /= ""
       THEN /\ task' = [task EXCEPT !.form.error = validateForm(task.form)]
            /\ last' = Submitted("none", validateForm(task.form), idb, idb, task')
            /\ UNCHANGED idb
       ELSE \E uuid \in (IF task.editingExercise /= Null THEN {""}
                           ELSE Ids \ DOMAIN idb["exercises"]) :
                LET exercise == SubmittedExercise(task.form, task.editingExercise, uuid)
                    routed == IF task.editingExercise /= Null THEN "update" ELSE "create"
                    r == IF routed = "update"
                         THEN ExerciseRepository_update(env, idb, now,
                                                        task.editingExercise.id, exercise)
                         ELSE ExerciseRepository_create(env, idb, exercise)
                IN  /\ idb' = r.db
                    /\ task' = IF r.err = ""
                               THEN [showForm |-> FALSE, editingExercise |-> Null,
                                     form |-> Null, error |-> ""]
                               ELSE [task EXCEPT !.error = r.err, !.form.error = ""]
                    /\ last' = Submitted(routed, r.err, idb, r.db, task')
    /\ UNCHANGED <<env, now, ls, container, built, snap>>

\* the list's delete button: deleteExercise(id)
PageDelete ==
    /\ ~task.showForm
    /\ \E id \in DOMAIN idb["exercises"] :
           LET r == ExerciseRepository_delete(env, idb, id)
           IN  /\ idb' = r.db
               /\ task' = [task EXCEPT !.error = r.err]
    /\ UNCHANGED <<env, now, ls, last, container, built, snap>>

PageInit ==
    /\ env = "indexeddb"
    /\ now = 0
    /\ idb = EmptyDb
    /\ ls = EmptyLs
    /\ last = NoCall
    /\ container = Null
    /\ built = NoneBuilt
    /\ task = [showForm |-> FALSE, editingExercise |-> Null, form |-> Null, error |-> ""]
    /\ snap = NoSnap

PageNext ==
    \/ OpenForm
    \/ handleEdit
    \/ handleCancel
    \/ handleUseTemplate
    \/ setName
    \/ addSet
    \/ removeSet
    \/ updateSet
    \/ FormSubmit
    \/ PageDelete

PageSpec == PageInit /\ [][PageNext]_vars

(***************************************************************************)
(* Claims on the repository layer (specification Spec)                      *)
(***************************************************************************)
EntityStores == {"exercises", "foods"}
Stored(db, store) == {deserialize(item) : item \in Values(db[store])}

\* C4: for every stored record and every partial, update(id, partial) resolves and
\* stores a record with the same id and the same createdAt as before the call and
\* with an updatedAt not earlier than the previous one.
C4_UpdateKeepsIdentity ==
    \A store \in EntityStores :
        \A id \in DOMAIN idb[store], updates \in PartialsOf(store) :
            LET r == Repo_update(store, env, idb, now, id, updates)
                before == deserialize(idb[store][id])
            IN  /\ r.err = ""
                /\ id \in DOMAIN r.db[store]
                /\ LET after == deserialize(r.db[store][id])
                   IN  /\ after.id = before.id
                       /\ after.createdAt = before.createdAt
                       /\ after.updatedAt >= before.updatedAt

\* C4, the part the code keeps: the id never changes, updatedAt never goes back, and
\* createdAt is kept by every partial that does not itself carry createdAt.
C4_UpdateKeepsId ==
    \A store \in EntityStores :
        \A id \in DOMAIN idb[store], updates \in PartialsOf(store) :
            LET r == Repo_update(store, env, idb, now, id, updates)
                before == deserialize(idb[store][id])
            IN  /\ r.err = ""
                /\ DOMAIN r.db[store] = DOMAIN idb[store]
                /\ LET after == deserialize(r.db[store][id])
                   IN  /\ after.id = before.id
                       /\ "createdAt" \notin DOMAIN updates
                              => after.createdAt = before.createdAt
                       /\ after.updatedAt >= before.updatedAt

\* C5: create(entity) with an id already in the store rejects and leaves every
\* stored record as it was, on the IndexedDB engine (through the repository) and
\* on the localStorage engine (the same add call).
C5_DuplicateCreateRejected ==
    \A store \in EntityStores :
        \A entity \in InputsOf(store, now) :
            entity.id \in DOMAIN idb[store] =>
                LET r == Repo_create(store, env, idb, entity)
                    l == ls_add(env, ls, store, serialize(entity))
                IN  /\ r.err /= "" /\ r.db = idb
                    /\ l.err /= "" /\ l.db = ls

C5_Witness ==
    \E store \in EntityStores :
        /\ Cardinality(DOMAIN idb[store]) = 2
        /\ DOMAIN ls_getStoreData(env, ls, store) = DOMAIN idb[store]
        /\ \E entity \in InputsOf(store, now) :
               /\ serialize(entity) /= idb[store][entity.id]
               /\ Repo_create(store, env, idb, entity).err /= ""

\* C6: for all dates d1, d2 and every store content, getByDateRange(d1, d2)
\* resolves with exactly the records dated within [startOfDay(d1), endOfDay(d2)],
\* and the localStorage engine answers the same engine call with the same records.
InRange(store, d1, d2) ==
    {x \in Stored(idb, store) : startOfDay(d1) <= x.date /\ x.date <= endOfDay(d2)}

C6_RangeCorrect ==
    \A store \in EntityStores, d1 \in Dates, d2 \in Dates :
        LET r == Repo_getByDateRange(store, env, idb, d1, d2)
            l == ls_apply(env, ls, r.calls[1])
        IN  /\ r.err = "" /\ r.val = InRange(store, d1, d2)
            /\ l.err = "" /\ {deserialize(item) : item \in l.val} = InRange(store, d1, d2)

\* C6, the part the code keeps: when d1 is not on a later day than d2 both engines
\* return exactly the records of the range.
C6_RangeCorrectOrdered ==
    \A store \in EntityStores, d1 \in Dates, d2 \in Dates :
        startOfDay(d1) <= endOfDay(d2) =>
            LET r == Repo_getByDateRange(store, env, idb, d1, d2)
                l == ls_apply(env, ls, r.calls[1])
            IN  /\ r.err = "" /\ r.val = InRange(store, d1, d2)
                /\ l.err = ""
                /\ {deserialize(item) : item \in l.val} = InRange(store, d1, d2)

\* Engine calls a caller can issue: every operation of the engine surface, on the
\* records and query values of the inputs above.
EngineItems(store) == {serialize(x) : x \in UNION {InputsOf(store, t) : t \in Times}}
DayBounds == {toISOString(startOfDay(d)) : d \in Dates} \cup {toISOString(endOfDay(d)) : d \in Dates}
EngineCalls ==
    UNION {
        {[op |-> "getById", store |-> s, id |-> i] : i \in Ids}
        \cup {[op |-> "getAll", store |-> s]}
        \cup {[op |-> "add", store |-> s, item |-> x] : x \in EngineItems(s)}
        \cup {[op |-> "update", store |-> s, item |-> x] : x \in EngineItems(s)}
        \cup {[op |-> "deleteById", store |-> s, id |-> i] : i \in Ids}
        \cup {[op |-> "getByIndex", store |-> s, index |-> "name", value |-> n] :
                  n \in Names \cup FoodNames}
        \cup {[op |-> "getByIndexRange", store |-> s, index |-> "date",
               lower |-> lo, upper |-> hi] : lo \in DayBounds, hi \in DayBounds}
        \cup {[op |-> "clearStore", store |-> s]}
        : s \in EntityStores}

SameOutcome(a, b) ==
    /\ (a.err = "") <=> (b.err = "")
    /\ a.err = "" => a.val = b.val

\* C7: after the same sequence of engine operations from empty stores, every engine
\* operation returns the same records and fails on the same calls on the IndexedDB
\* engine and on the localStorage engine.
C7_BackendParity ==
    \A c \in EngineCalls : SameOutcome(idb_apply(env, idb, c), ls_apply(env, ls, c))

\* C7, the part the code keeps: the engines agree on every call except a range
\* query whose lower bound is above its upper bound.
C7_BackendParityOrdered ==
    \A c \in EngineCalls :
        (c.op = "getByIndexRange" => StrLeq(c.lower, c.upper)) =>
            SameOutcome(idb_apply(env, idb, c), ls_apply(env, ls, c))

\* C9: after create(e) succeeds, getById(e.id) returns an entity equal to e in
\* every field: the same instants for date, createdAt and updatedAt, the same sets
\* in the same order, no field added or dropped.
C9_CreateRoundTrip ==
    \A store \in EntityStores :
        \A entity \in InputsOf(store, now) :
            LET c == Repo_create(store, env, idb, entity)
            IN  c.err = "" =>
                    /\ c.val = entity
                    /\ Repo_getById(store, env, c.db, entity.id).err = ""
                    /\ Repo_getById(store, env, c.db, entity.id).val = entity

C9_Witness ==
    /\ \E id \in DOMAIN idb["exercises"] :
           LET e == ExerciseRepository_getById(env, idb, id).val
           IN  e.sets = <<Set2, Set1>> /\ e.createdAt = 1 /\ e.date = 1
    /\ \E entity \in ExerciseInputs(now) :
           ExerciseRepository_create(env, idb, entity).err = ""

\* C10: after any sequence of awaited create, update and delete calls, getByName(n)
\* returns exactly the stored exercises named n; a created record is found under
\* its name, a renamed record only under its new name; after delete(id), getById(id)
\* is absent and the record is in no name or date query.
HasId(entities, id) == \E x \in entities : x.id = id

C10_NameQueriesFollowWrites ==
    /\ \A n \in Names :
           /\ ExerciseRepository_getByName(env, idb, n).err = ""
           /\ ExerciseRepository_getByName(env, idb, n).val
                  = {x \in Stored(idb, "exercises") : x.name = n}
    /\ \A entity \in ExerciseInputs(now) :
           LET c == ExerciseRepository_create(env, idb, entity)
           IN  c.err = "" =>
                   entity \in ExerciseRepository_getByName(env, c.db, entity.name).val
    /\ \A id \in DOMAIN idb["exercises"], n \in Names :
           LET u == ExerciseRepository_update(env, idb, now, id, [name |-> n])
           IN  /\ u.err = ""
               /\ \A m \in Names :
                      HasId(ExerciseRepository_getByName(env, u.db, m).val, id) <=> m = n
    /\ \A id \in Ids :
           LET d == ExerciseRepository_delete(env, idb, id)
           IN  /\ d.err = ""
               /\ ExerciseRepository_getById(env, d.db, id).val = Null
               /\ \A n \in Names :
                      ~HasId(ExerciseRepository_getByName(env, d.db, n).val, id)
               /\ \A d1 \in Dates, d2 \in Dates :
                      ~HasId(ExerciseRepository_getByDateRange(env, d.db, d1, d2).val, id)

C10_Witness ==
    /\ Cardinality(DOMAIN idb["exercises"]) = 2
    /\ \E id \in DOMAIN idb["exercises"] :
           /\ idb["exercises"][id].updatedAt /= idb["exercises"][id].createdAt
           /\ \E other \in DOMAIN idb["exercises"] :
                  idb["exercises"][other].name /= idb["exercises"][id].name

(***************************************************************************)
(* Claims on the storage factory (specification FactorySpec)                *)
(***************************************************************************)
RepositoryOps == {"create", "getById", "update", "delete"}

\* C2: when the container reports 'localstorage' (a window without IndexedDB), the
\* calls on its repositories are served by the localStorage engine and do not fail.
C2_FallbackServes ==
    (container /= Null /\ container.storageType = "localstorage"
        /\ last.op \in RepositoryOps) => last.err = ""

\* C8: every call of getRepositories() or createRepositories(), also with a
\* repository call pending, returns the one container with the same four
\* repository instances; the container is written at most once, and nothing is
\* constructed after it is set.
C8_ContainerWrittenOnce ==
    [][/\ container /= Null => container' = container /\ built' = built
       /\ (last'.op \in {"getRepositories", "createRepositories"} /\ last' /= last)
              => last'.val = container' /\ last'.val /= Null]_vars

C8_Witness ==
    /\ last.op = "getRepositories"
    /\ last.val = container
    /\ task.pc = "pending"
    /\ DOMAIN idb["exercises"] /= {}
    /\ built["DataExportRepository"] = 1

(***************************************************************************)
(* Claims on the settings repository and the export service                 *)
(* (specifications SettingsSpec and FairSettingsSpec)                       *)
(***************************************************************************)
Running(kind) == task.pc /= "idle" /\ task.kind = kind
StoredSettings == idb["settings"][SETTINGS_ID]
SameValues(a, b) ==
    /\ a.dailyCalorieGoal = b.dailyCalorieGoal
    /\ a.weightUnit = b.weightUnit
    /\ a.theme = b.theme

\* C1: a get() on an empty settings store creates the defaults once: the
\* get() calls that follow the creation find the stored record and do not
\* trigger default creation again, and a get() that has returned leaves the
\* store holding a record with the values it returned.
C1_DefaultsCreatedOnce ==
    /\ Running("get") => task.nest <= 1
    /\ (task = Idle /\ last.op = "get" /\ last.err = "") =>
           /\ SETTINGS_ID \in DOMAIN idb["settings"]
           /\ SameValues(last.val, StoredSettings)

\* C3: importData(exportData()) completes and leaves the three stores as
\* they were just before the export, every field value unchanged.
RoundTripStarted == task.pc = "exp_exercises"
RoundTripRestored ==
    /\ task = Idle
    /\ last.op = "import"
    /\ last.err = ""
    /\ idb = snap.before
C3_RoundTripRestores == RoundTripStarted ~> RoundTripRestored

\* C11: the step in which clearAllData() resolves leaves the exercises, foods
\* and settings stores empty: getAll() on the exercise and the food repository
\* returns nothing and the settings store holds no record, whatever the stores
\* held when the call started.
C11_ClearAllEmpties ==
    [][(Running("clearAllData") /\ task' = Idle /\ last'.err = "") =>
           /\ ExerciseRepository_getAll(env, idb').err = ""
           /\ ExerciseRepository_getAll(env, idb').val = {}
           /\ FoodRepository_getAll(env, idb').err = ""
           /\ FoodRepository_getAll(env, idb').val = {}
           /\ DOMAIN idb'["settings"] = {}]_vars

C11_Witness ==
    /\ task = Idle
    /\ last.op = "clearAllData"
    /\ last.err = ""
    /\ snap.state = "clearing"
    /\ \A store \in StoreNames : DOMAIN snap.before[store] /= {}
    /\ idb = EmptyDb

(***************************************************************************)
(* Further claims on the repository layer (specification Spec)              *)
(***************************************************************************)
\* C12: update(id, partial) for an id that is not stored rejects with the
\* not-found error and writes nothing: the stores of both engines are as
\* before the call and hold no record with that id.
C12_UpdateMissingRejected ==
    \A store \in EntityStores :
        \A id \in Ids \ DOMAIN idb[store], updates \in PartialsOf(store) :
            LET r == Repo_update(store, env, idb, now, id, updates)
            IN  /\ r.err = "not found"
                /\ r.val = Null
                /\ r.db = idb
                /\ id \notin DOMAIN r.db[store]
                /\ ls_run(env, ls, r.calls).db = ls

C12_Witness ==
    \E store \in EntityStores :
        \E id \in DOMAIN idb[store], missing \in Ids \ DOMAIN idb[store] :
            /\ idb[store][id].updatedAt /= idb[store][id].createdAt
            /\ Repo_update(store, env, idb, now, missing, [date |-> 0]).err /= ""

\* C18: delete(id) for an id that is not stored resolves and leaves the store
\* as it is, and a second delete(id) leaves the store as the first one left
\* it, on both repositories and on both engines.
C18_DeleteIdempotent ==
    \A store \in EntityStores, id \in Ids :
        LET r1 == Repo_delete(store, env, idb, id)
            r2 == Repo_delete(store, env, r1.db, id)
            l1 == ls_run(env, ls, r1.calls)
            l2 == ls_run(env, l1.db, r2.calls)
        IN  /\ r1.err = "" /\ r2.err = ""
            /\ r2.db = r1.db
            /\ id \notin DOMAIN idb[store] => r1.db = idb
            /\ l1.out[1].err = "" /\ l2.out[1].err = ""
            /\ l2.db = l1.db
            /\ id \notin DOMAIN ls_getStoreData(env, ls, store) =>
                   \A st \in StoreNames :
                       ls_getStoreData(env, l1.db, st) = ls_getStoreData(env, ls, st)
            /\ Repo_getById(store, env, r2.db, id).val = Null
            /\ ls_getById(env, l2.db, store, id).val = Null

C18_Witness ==
    \E store \in EntityStores, other \in EntityStores :
        /\ ls[store] = JSON_stringify(EmptyMap)
        /\ idb[store] = EmptyMap
        /\ Cardinality(DOMAIN idb[other]) = 1
        /\ DOMAIN ls_getStoreData(env, ls, other) = DOMAIN idb[other]

\* C23: update(id, partial) changes the record with that id only: its fields
\* other than updatedAt that the partial does not name keep their values and
\* its id stays; the other records of the store and the other stores are as
\* before; create, update and delete on one repository leave the stores of
\* the others as they are, on both engines.
OthersKept(store, r) ==
    \A st \in StoreNames \ {store} :
        /\ r.db[st] = idb[st]
        /\ ls_run(env, ls, r.calls).db[st] = ls[st]

C23_UpdateFrame ==
    \A store \in EntityStores :
        /\ \A id \in Ids, updates \in PartialsOf(store) :
               LET r == Repo_update(store, env, idb, now, id, updates)
               IN  /\ \A st \in StoreNames \ {store} : r.db[st] = idb[st]
                   /\ (id \in DOMAIN idb[store] /\ r.err = "") =>
                          LET before == idb[store][id]
                              after == r.db[store][id]
                          IN  /\ DOMAIN r.db[store] = DOMAIN idb[store]
                              /\ \A j \in DOMAIN idb[store] \ {id} :
                                     r.db[store][j] = idb[store][j]
                              /\ after.id = id
                              /\ DOMAIN after = (DOMAIN before) \cup (DOMAIN updates)
                              /\ \A f \in (DOMAIN before)
                                             \ ((DOMAIN updates) \cup {"updatedAt"}) :
                                     after[f] = before[f]
        /\ \A entity \in InputsOf(store, now) :
               OthersKept(store, Repo_create(store, env, idb, entity))
        /\ \A id \in Ids :
               /\ OthersKept(store, Repo_delete(store, env, idb, id))
               /\ OthersKept(store, Repo_update(store, env, idb, now, id, [date |-> 0]))

C23_Witness ==
    \E store \in EntityStores :
        /\ \E id \in DOMAIN idb[store] :
               /\ idb[store][id].updatedAt /= idb[store][id].createdAt
               /\ deserialize(idb[store][id]).date /= 0
        /\ \E st \in EntityStores \ {store} : DOMAIN idb[st] /= {}

(***************************************************************************)
(* Further claims on the settings repository and the export service         *)
(* (specifications SettingsSpec and FairSettingsSpec)                       *)
(***************************************************************************)
\* C13: after any sequence of settings get, update, reset and import calls
\* the settings store holds at most one record, and it is stored under the
\* key 'user-settings'.
C13_SingleSettingsRecord == DOMAIN idb["settings"] \subseteq {SETTINGS_ID}

(***************************************************************************)
(* Claims on faults of the stored content (specification FaultSpec)         *)
(***************************************************************************)
Unreadable(e, l, store) == e = "none" \/ l[store].kind = "garbled"

\* C14: on the localStorage engine, getById, getAll, add, update and
\* deleteById on a store whose text does not parse, or in a runtime without
\* a window, fail with an error and leave the stored text as it is.
C14_NoSilentDefault ==
    \A c \in FaultCalls :
        Unreadable(env, ls, c.store) =>
            /\ ls_apply(env, ls, c).err /= ""
            /\ ls_apply(env, ls, c).db = ls

Returned(rd, r) ==
    IF rd.op /= "getById" THEN r.val
    ELSE IF r.val = Null THEN {} ELSE {r.val}

\* C15: a repository read that would return a record whose stored date text
\* does not parse fails with an error: no read resolves with an entity that
\* carries an invalid date, and no settings get() returns one.
C15_CorruptDateRejected ==
    /\ \A rd \in FaultReads :
           LET r == RepoRead(env, idb, rd)
           IN  r.err = "" => \A x \in Returned(rd, r) : SerializeError(x) = ""
    /\ (task = Idle /\ last.op = "get" /\ last.err = "") => last.val.updatedAt /= NaT

\* C19: from every state of the settings store reset() resolves with the
\* default values stamped with the time of the call, and leaves that record
\* under 'user-settings'; a store that was empty or held the one settings
\* record holds exactly that record afterwards, and the other stores are
\* untouched.
C19_ResetWritesDefaults ==
    LET r == UserSettingsRepository_reset(env, idb, now)
    IN  /\ r.err = ""
        /\ SameValues(r.val, DEFAULT_USER_SETTINGS)
        /\ r.val.dailyCalorieGoal = 2000 /\ r.val.weightUnit = "lbs"
        /\ r.val.theme = "system"
        /\ r.val.updatedAt = now
        /\ SETTINGS_ID \in DOMAIN r.db["settings"]
        /\ UserSettingsRepository_deserialize(r.db["settings"][SETTINGS_ID]) = r.val
        /\ DOMAIN idb["settings"] \subseteq {SETTINGS_ID} =>
               r.db["settings"] =
                   Put(EmptyMap, SETTINGS_ID, UserSettingsRepository_serialize(r.val))
        /\ \A store \in EntityStores : r.db[store] = idb[store]

C19_Witness ==
    /\ task = Idle
    /\ DOMAIN idb["settings"] = {SETTINGS_ID}
    /\ StoredSettings.theme = "dark"
    /\ StoredSettings.dailyCalorieGoal = 1800
    /\ now > NewDate(StoredSettings.updatedAt)

(***************************************************************************)
(* Claims on the calls of the export service                                *)
(* (specifications FairSettingsSpec and ImportSpec)                         *)
(***************************************************************************)
\* C16: every call that has been started resolves or rejects.
C16_CallsTerminate == (task.pc /= "idle") ~> (task.pc = "idle")

Prefix(seq, n) == {seq[i] : i \in 1..n}
Items(seq) == Prefix(seq, Len(seq))
\* the records of the first Len(all) - Len(rest) entries of a snapshot array
Inserted(all, rest) == Prefix(all, Len(all) - Len(rest))

ImportOrdered(t, db, s) ==
    IF t.pc = "imp_clear"
    THEN /\ t.exercises = s.data.exercises
         /\ t.foods = s.data.foods
         /\ \A store \in StoreNames :
                db[store] = IF store \in t.toClear THEN s.before[store] ELSE EmptyMap
    ELSE /\ t.toClear = {}
         /\ Values(db["exercises"]) = Inserted(s.data.exercises, t.exercises)
         /\ Values(db["foods"]) = Inserted(s.data.foods, t.foods)
         /\ t.foods /= s.data.foods => t.exercises = <<>>

\* C17: while importData(snapshot) runs, no snapshot record is inserted before
\* all three stores are cleared, and the entity stores hold exactly the
\* records inserted so far; when it resolves every snapshot record is
\* stored, and when it rejects the stores hold only the records inserted
\* before the failure, none of the records from before the import.
C17_ImportOrder ==
    [][Running("import") =>
           /\ ImportOrdered(task, idb, snap)
           /\ (task' = Idle /\ last'.err = "") =>
                  /\ Values(idb'["exercises"]) = Items(snap.data.exercises)
                  /\ Values(idb'["foods"]) = Items(snap.data.foods)
           /\ (task' = Idle /\ last'.err /= "") =>
                  \E n \in 0..Len(snap.data.exercises), m \in 0..Len(snap.data.foods) :
                      /\ Values(idb'["exercises"]) = Prefix(snap.data.exercises, n)
                      /\ Values(idb'["foods"]) = Prefix(snap.data.foods, m)
                      /\ m > 0 => n = Len(snap.data.exercises)]_vars

C17_Witness ==
    /\ task = Idle
    /\ last.op = "import"
    /\ last.err /= ""
    /\ snap.state = "importing"
    /\ DOMAIN snap.before["exercises"] = Ids
    /\ DOMAIN snap.before["foods"] /= {}
    /\ Values(idb["exercises"]) = {snap.data.exercises[1]}
    /\ idb["foods"] = EmptyMap

(***************************************************************************)
(* Claims on getRecentFoodNames (specification RecentSpec)                  *)
(***************************************************************************)
NoDuplicates(seq) == \A i, j \in DOMAIN seq : i /= j => seq[i] /= seq[j]
\* the latest createdAt among the stored entries of a name
LatestOf(n) ==
    LET ts == {x.createdAt : x \in {y \in Stored(idb, "foods") : y.name = n}}
    IN  CHOOSE t \in ts : \A u \in ts : u <= t
StoredNames == {x.name : x \in Stored(idb, "foods")}
MostRecentFirst(seq) ==
    /\ SeqToSet(seq) \subseteq StoredNames
    /\ \A i, j \in DOMAIN seq : i < j => LatestOf(seq[i]) >= LatestOf(seq[j])
    /\ \A n \in StoredNames \ SeqToSet(seq) :
           \A i \in DOMAIN seq : LatestOf(seq[i]) >= LatestOf(n)

\* C20: for every store content and every limit, 0 included,
\* getRecentFoodNames(limit) resolves with at most limit names, without
\* duplicates, ordered by the latest createdAt of each name, latest first.
C20_RecentNamesCapped ==
    \A limit \in Limits :
        LET r == FoodRepository_getRecentFoodNames(env, idb, limit)
        IN  /\ r.err = ""
            /\ Len(r.val) <= limit
            /\ NoDuplicates(r.val)
            /\ MostRecentFirst(r.val)

\* C20, the part the code keeps: for a limit of at least 1 the result is the
\* limit most recent names (all of them when fewer are stored), latest first.
C20_RecentNamesCappedPositive ==
    \A limit \in Limits \ {0} :
        LET r == FoodRepository_getRecentFoodNames(env, idb, limit)
            most == IF Cardinality(StoredNames) < limit THEN Cardinality(StoredNames)
                    ELSE limit
        IN  /\ r.err = ""
            /\ Len(r.val) = most
            /\ NoDuplicates(r.val)
            /\ MostRecentFirst(r.val)

(***************************************************************************)
(* Further claims on the storage factory (specification FactorySpec)        *)
(***************************************************************************)
\* C21: once getRepositories() has been called, one instance of each entity
\* repository and one export service have been constructed, and the export
\* service works through the three repository instances of the container.
C21_OneInstanceEach ==
    container /= Null =>
        /\ \A class \in Classes : built[class] = 1
        /\ container.dataExportRepository.exerciseRepo = container.exerciseRepository
        /\ container.dataExportRepository.foodRepo = container.foodRepository
        /\ container.dataExportRepository.settingsRepo = container.userSettingsRepository

(***************************************************************************)
(* Claims on the IndexedDB engine's transactions (specification TxnSpec)    *)
(***************************************************************************)
\* C22: when add() or update() has resolved and its transaction has ended,
\* the record is in the store, as resolved, for a later getById.
C22_ResolvedIsCommitted ==
    (task.pc = "idle" /\ last.op \in {"add", "update"} /\ last.err = "") =>
        /\ last.val.id \in DOMAIN idb[last.store]
        /\ idb[last.store][last.val.id] = last.val

\* C28: when no engine function is in flight, every connection that was
\* opened has been closed.
C28_ConnectionsClosed == task.pc = "idle" => task.open = 0

(***************************************************************************)
(* Claims on the USDA search service (specification ApiSpec)                *)
(***************************************************************************)
\* C24: any two network requests to the USDA API are issued at least
\* MIN_REQUEST_INTERVAL apart, whatever the calls and however they overlap.
C24_RequestsSpaced ==
    \A i, j \in DOMAIN last :
        i < j => last[j] - last[i] >= MIN_REQUEST_INTERVAL


(***************************************************************************)
(* Claims on calls that run concurrently (specification RaceSpec)           *)
(***************************************************************************)
\* C25: once delete(id) has resolved, getById(id) returns absent until a later
\* create of that id resolves, also when an update that read the record before
\* the delete is still in flight.
C25_DeletedStaysDeleted ==
    \A k \in snap.deleted : Repo_getById(k[1], env, idb, k[2]).val = Null

Engine(op) == IF op = "ls.add" THEN "ls" ELSE "idb"
StoredItem(c) ==
    IF c.op = "ls.add" THEN ls_getById(env, ls, c.store, c.id).val
    ELSE idb_getById(env, idb, c.store, c.id).val
ItemOf(c) == IF c.op = "create" THEN serialize(c.arg) ELSE c.arg

\* two calls of the given kinds on the same record, both settled, that were in
\* flight together
Raced(p, q, ops) ==
    /\ p /= q
    /\ task.calls[p].pc = "settled" /\ task.calls[q].pc = "settled"
    /\ task.calls[p].call.op \in ops /\ task.calls[q].call.op \in ops
    /\ Engine(task.calls[p].call.op) = Engine(task.calls[q].call.op)
    /\ task.calls[p].call.store = task.calls[q].call.store
    /\ task.calls[p].call.id = task.calls[q].call.id
    /\ task.calls[p].overlap /\ task.calls[q].overlap

\* C26: of two concurrent creates of one id that is not stored, on either
\* engine, exactly one resolves and the other rejects, and the stored record is
\* the entity of the call that resolved.
C26_OneCreateWins ==
    \A p, q \in Procs :
        (Raced(p, q, CreateOps) /\ task.calls[p].absent /\ task.calls[q].absent) =>
            \E w \in {p, q} :
                /\ task.calls[w].err = ""
                /\ \A o \in {p, q} \ {w} : task.calls[o].err /= ""
                /\ StoredItem(task.calls[w].call) = ItemOf(task.calls[w].call)

C26_Witness ==
    \E e \in {"idb", "ls"} : \E p, q \in Procs :
        /\ Raced(p, q, CreateOps) /\ task.calls[p].absent /\ task.calls[q].absent
        /\ Engine(task.calls[p].call.op) = e
        /\ task.calls[p].err = "" /\ task.calls[q].err /= ""
        /\ ItemOf(task.calls[p].call) /= ItemOf(task.calls[q].call)

\* C27: when two concurrent updates of one id name disjoint fields and both
\* resolve, the stored record carries the new values of both.
C27_BothUpdatesKept ==
    \A p, q \in Procs :
        (/\ Raced(p, q, {"update"})
         /\ task.calls[p].err = "" /\ task.calls[q].err = ""
         /\ DOMAIN task.calls[p].call.arg \cap DOMAIN task.calls[q].call.arg = {}) =>
            LET c == task.calls[p].call
                stored == Repo_getById(c.store, env, idb, c.id).val
            IN  /\ stored /= Null
                /\ \A o \in {p, q} : \A f \in DOMAIN task.calls[o].call.arg :
                       stored[f] = task.calls[o].call.arg[f]

\* the snapshot exportData() would return from stores holding d
SnapshotOf(d, time) ==
    ExportSnapshot([exercises |-> InKeyOrder(Repo_getAll("exercises", env, d).val, IdOrder),
                    foods |-> InKeyOrder(Repo_getAll("foods", env, d).val, IdOrder)],
                   UserSettingsRepository_deserialize(d["settings"][SETTINGS_ID]),
                   time)

\* C30: the snapshot exportData() resolves with is the content the three stores
\* held together at one instant between the call and its resolution.
C30_ExportIsOneInstant ==
    \A p \in Procs :
        (/\ task.calls[p].pc = "settled"
         /\ task.calls[p].call.op = "exportData"
         /\ task.calls[p].err = "") =>
            \E d \in task.calls[p].seen : task.calls[p].val = SnapshotOf(d, now)


(***************************************************************************)
(* Claims on the exercises page (specification PageSpec)                    *)
(***************************************************************************)
\* C29: a valid form submitted after choosing a template is routed to the
\* repository's create, the number of stored exercises grows by one and the
\* form closes.
C29_TemplateSubmitCreates ==
    (last.op = "submit" /\ last.template /\ last.routed /= "none") =>
        /\ last.routed = "create"
        /\ last.err = ""
        /\ last.grew
        /\ last.closed

====
